---- MODULE Spec2Model ----
(***************************************************************************)
(* A model of the MPEG transport-stream demultiplexer of                   *)
(* modules/demux/ts.c: the PID table, the PAT/PMT/SDT callbacks, the       *)
(* PES/section gathering state machine, the PCR wrap-around correction     *)
(* and the PCR bisection seek.                                             *)
(*                                                                         *)
(* demux_sys_t is one record, sys; every C function that changes it is an  *)
(* operator from a sys record (and the function's arguments) to the sys    *)
(* record it leaves behind.  sys.out is the list of calls the last handler *)
(* made on its collaborators (es_out and the access' PID filter).          *)
(***************************************************************************)
EXTENDS Integers, Sequences, FiniteSets, TLC

VARIABLES sys,   \* demux_sys_t
          op     \* the handler that ran last: its name, its input, sys before it

vars == <<sys, op>>

---------------------------------------------------------------------------
(* Small helpers.                                                          *)

Ev(e, a, b) == [ev |-> e, a |-> a, b |-> b]

RECURSIVE SeqSum(_)
SeqSum(q) == IF q = <<>> THEN 0 ELSE Head(q) + SeqSum(Tail(q))

Count(q, P(_)) == Cardinality({k \in 1..Len(q) : P(q[k])})

---------------------------------------------------------------------------
(* 64-bit arithmetic.  An mtime_t or int64_t that may exceed 31 bits is a  *)
(* pair <<h, l>> standing for h * 2^20 + l with 0 <= l < 2^20; h carries   *)
(* the sign.  Nothing here wraps: every value of the model stays far       *)
(* below 2^63.                                                             *)

Base == 2^20

Norm(h, l) == <<h + (l \div Base), l % Base>>

Big(n) == Norm(0, n)

Add(a, b) == Norm(a[1] + b[1], a[2] + b[2])

Sub(a, b) == Norm(a[1] - b[1], a[2] - b[2])

Lt(a, b) == a[1] < b[1] \/ (a[1] = b[1] /\ a[2] < b[2])

Le(a, b) == a = b \/ Lt(a, b)

\* a * k for 0 <= k <= 1000
MulN(a, k) == Norm(a[1] * k, a[2] * k)

\* C's a / d (truncation towards zero) for 0 < d <= 1000
DivN(a, d) ==
    LET Floor(x) == <<x[1] \div d, ((x[1] % d) * Base + x[2]) \div d>>
    IN IF a[1] < 0 THEN Sub(Big(0), Floor(Sub(Big(0), a))) ELSE Floor(a)

\* 2^33 - 1 and 2^33
PCR_WRAP == <<8191, Base - 1>>

TwoTo33 == <<8192, 0>>

---------------------------------------------------------------------------
(* AdjustPCRWrapAround.  S.p_pcrs and S.p_pos are the sample table of      *)
(* CheckPCR (C index i is index i + 1 here), S.i_pos is stream_Tell.       *)

\* AdjustPCRWrapAround without the comparison of the reading with the sample
AdjustPCRWrapAround_TableOnly(S, i_pcr) ==
    LET RECURSIVE Loop(_, _)
        Loop(i, i_adjust) ==
            IF i < S.i_pcrs_num /\ S.p_pos[i + 1] <= S.i_pos
            THEN Loop(i + 1, IF Lt(S.p_pcrs[i + 1], S.p_pcrs[i])
                             THEN Add(i_adjust, PCR_WRAP) ELSE i_adjust)
            ELSE i_adjust
    IN Add(i_pcr, Loop(1, Big(0)))

\* the for loop: <<i, i_adjust>> when it ends
RECURSIVE AdjustLoop(_, _, _)
AdjustLoop(S, i, i_adjust) ==
    IF i < S.i_pcrs_num /\ S.p_pos[i + 1] <= S.i_pos
    THEN AdjustLoop(S, i + 1, IF Lt(S.p_pcrs[i + 1], S.p_pcrs[i])
                              THEN Add(i_adjust, PCR_WRAP) ELSE i_adjust)
    ELSE <<i, i_adjust>>

AdjustPCRWrapAround(S, i_pcr) ==
    LET r == AdjustLoop(S, 1, Big(0))
        i_adjust == IF Lt(i_pcr, S.p_pcrs[r[1]]) THEN Add(r[2], PCR_WRAP) ELSE r[2]
    IN Add(i_pcr, i_adjust)

---------------------------------------------------------------------------
(* The PID table (ts_pid_t pid[8192]) restricted to the PIDs the inputs    *)
(* name.  A pointer member (psi, es) is a record with st = "null", "live"  *)
(* or "freed"; p_owner, a pointer to the ts_psi_t of a PSI PID, is that    *)
(* PID, or -1 for NULL.                                                    *)

PIDS == {0, 17, 18, 20, 32, 33, 48, 49, 100, 200, 201, 8191}

PidSeq == <<0, 17, 18, 20, 32, 33, 48, 49, 100, 200, 201, 8191>>

NoPsi == [st |-> "null", i_pat_version |-> -1, i_sdt_version |-> -1, prg |-> <<>>]

FreedPsi == [NoPsi EXCEPT !.st = "freed"]

NoEs == [st |-> "null", cat |-> "unknown", codec |-> "none", id |-> 0,
         data_type |-> "pes", lang |-> "", i_extra |-> 0,
         p_data |-> <<>>, i_data_size |-> 0, i_data_gathered |-> 0]

FreedEs == [NoEs EXCEPT !.st = "freed"]

\* calloc( 1, sizeof( ts_es_t ) ) and es_format_Init( UNKNOWN_ES, 0 )
NewEs == [NoEs EXCEPT !.st = "live"]

\* a ts_prg_psi_t as PIDInit fills it
NewPrg == [i_version |-> -1, i_number |-> -1, i_pid_pcr |-> -1, i_pid_pmt |-> -1,
           i_pcr_value |-> Big(-1)]

\* an entry of the table after memset( p_sys, 0 ) and the loop of Open
ZeroPid == [b_valid |-> FALSE, b_seen |-> FALSE, i_cc |-> 0, b_scrambled |-> FALSE,
            psi |-> NoPsi, es |-> NoEs, extra_es |-> <<>>,
            p_owner |-> -1, i_owner_number |-> 0]

\* PIDInit, were its PSI branch to leave pid->es as it finds it
PIDInit_KeepsEs(pe, b_psi, p_owner) ==
    LET base == [pe EXCEPT !.b_valid = TRUE, !.i_cc = 255, !.b_scrambled = FALSE,
                           !.p_owner = p_owner, !.i_owner_number = 0,
                           !.extra_es = <<>>]
    IN IF b_psi
       THEN LET old == IF pe.b_valid THEN pe.psi ELSE [NoPsi EXCEPT !.st = "live"]
            IN [base EXCEPT !.psi = [old EXCEPT !.i_pat_version = -1,
                                                !.i_sdt_version = -1,
                                                !.prg = IF p_owner # -1
                                                        THEN Append(@, NewPrg)
                                                        ELSE @]]
       ELSE [base EXCEPT !.psi = NoPsi, !.es = NewEs]

PIDInit(pe, b_psi, p_owner) ==
    LET base == [pe EXCEPT !.b_valid = TRUE, !.i_cc = 255, !.b_scrambled = FALSE,
                           !.p_owner = p_owner, !.i_owner_number = 0,
                           !.extra_es = <<>>]
    IN IF b_psi
       THEN LET old == IF pe.b_valid THEN pe.psi ELSE [NoPsi EXCEPT !.st = "live"]
            IN [base EXCEPT !.es = NoEs,
                            !.psi = [old EXCEPT !.i_pat_version = -1,
                                                !.i_sdt_version = -1,
                                                !.prg = IF p_owner # -1
                                                        THEN Append(@, NewPrg)
                                                        ELSE @]]
       ELSE [base EXCEPT !.psi = NoPsi, !.es = NewEs]

SetPIDFilter(S, i_pid, b_selected) ==
    IF ~S.b_access_control THEN S
    ELSE [S EXCEPT !.out = Append(@, Ev("Filter", i_pid, IF b_selected THEN 1 ELSE 0))]

\* the es_out_Del calls of PIDClean on an elementary-stream entry
EsDelEvents(pe, p) ==
    (IF pe.es.id # 0 THEN <<Ev("Del", p, 0)>> ELSE <<>>)
    \o SelectSeq([k \in 1..Len(pe.extra_es) |->
                     IF pe.extra_es[k].id # 0 THEN Ev("Del", p, k) ELSE Ev("", p, k)],
                 LAMBDA e : e.ev = "Del")

PIDClean(S, p) ==
    LET pe == S.pid[p]
    IN IF pe.psi.st # "null"
       THEN [S EXCEPT !.pid[p].psi = FreedPsi, !.pid[p].b_valid = FALSE]
       ELSE [S EXCEPT !.pid[p].es = FreedEs,
                      !.pid[p].extra_es = <<>>,
                      !.pid[p].b_valid = FALSE,
                      !.i_pmt_es = @ - Len(EsDelEvents(pe, p)),
                      !.out = @ \o EsDelEvents(pe, p)]

ProgramIsSelected(S, i_pgrm) ==
    \/ S.i_current_program = -1
    \/ S.i_current_program = 0
    \/ S.i_current_program = i_pgrm

\* ValidateDVBMeta, were it to tear down the named PID only
ValidateDVBMeta_NamedOnly(S, i_pid) ==
    IF ~S.b_dvb_meta \/ i_pid \notin {17, 18, 20} THEN S
    ELSE [SetPIDFilter(IF S.pid[i_pid].psi.st # "null"
                       THEN [S EXCEPT !.pid[i_pid].psi = NoPsi,
                                      !.pid[i_pid].b_valid = FALSE]
                       ELSE S, i_pid, FALSE)
             EXCEPT !.b_dvb_meta = FALSE, !.attached = {}]

ValidateDVBMeta(S, i_pid) ==
    IF ~S.b_dvb_meta \/ i_pid \notin {17, 18, 20} THEN S
    ELSE LET Tear(T, i) ==
                 SetPIDFilter(IF T.pid[i].psi.st # "null"
                              THEN [T EXCEPT !.pid[i].psi = NoPsi,
                                             !.pid[i].b_valid = FALSE]
                              ELSE T, i, FALSE)
         IN [Tear(Tear(Tear(S, 17), 18), 20) EXCEPT !.b_dvb_meta = FALSE,
                                                     !.attached = {}]

\* Open: p_sys->i_pcrs_num = 10
PcrsNum == 10

\* the session Open leaves behind on an access that cannot seek (no PCR
\* probes); b_access tells whether the access accepted the PID filter
\* requests of Open.  i_pos is stream_Tell( p_demux->s ), b_ca whether the
\* access answers STREAM_SET_PRIVATE_ID_CA with VLC_SUCCESS.
OpenSys(b_access) ==
    [pid |-> [p \in PIDS |->
                 IF p \in {0, 17, 18, 20} THEN PIDInit(ZeroPid, TRUE, -1)
                 ELSE IF p = 8191 THEN [ZeroPid EXCEPT !.b_seen = TRUE]
                 ELSE ZeroPid],
     pmt |-> <<>>,
     i_pmt_es |-> 0,
     b_user_pmt |-> FALSE,
     b_dvb_meta |-> TRUE,
     b_access_control |-> b_access,
     b_ca |-> TRUE,
     i_current_program |-> 0,
     attached |-> {},
     b_trust_pcr |-> TRUE,
     i_pid_ref_pcr |-> -1,
     i_first_pcr |-> Big(-1),
     i_current_pcr |-> Big(-1),
     i_last_pcr |-> Big(-1),
     b_force_seek_per_percent |-> TRUE,
     i_pcrs_num |-> PcrsNum,
     p_pcrs |-> [i \in 1..PcrsNum |-> Big(0)],
     p_pos |-> [i \in 1..PcrsNum |-> 0],
     i_pos |-> 0,
     crashed |-> FALSE,
     out |-> <<>>]

---------------------------------------------------------------------------
(* PATCallBack.  p_pat = [i_version, b_current_next, programs], programs a *)
(* sequence of [i_number, i_pid].                                          *)

\* PATDiscards without the comparison of versions
PATDiscards_AnyVersion(S, p_pat) ==
    \/ /\ S.pid[0].psi.i_pat_version # -1
       /\ ~p_pat.b_current_next
    \/ S.b_user_pmt

\* PATDiscards without the test of the user PMT
PATDiscards_NoUserPmt(S, p_pat) ==
    /\ S.pid[0].psi.i_pat_version # -1
    /\ \/ ~p_pat.b_current_next
       \/ p_pat.i_version = S.pid[0].psi.i_pat_version

\* the test at the head of PATCallBack
PATDiscards(S, p_pat) ==
    \/ /\ S.pid[0].psi.i_pat_version # -1
       /\ \/ ~p_pat.b_current_next
          \/ p_pat.i_version = S.pid[0].psi.i_pat_version
    \/ S.b_user_pmt

\* b_keep of the "Search pmt to be deleted" loop, for the PMT PID p
PATKeeps(S, p_pat, p) ==
    \E k \in 1..Len(p_pat.programs) :
        /\ p_pat.programs[k].i_pid = p
        /\ \E g \in 1..Len(S.pid[p].psi.prg) :
               S.pid[p].psi.prg[g].i_number = p_pat.programs[k].i_number

\* "Delete all ES attached to thoses PMT": the PIDs from PidSeq[i] on
RECURSIVE PATCleanEs(_, _, _)
PATCleanEs(S, pmt_rm, i) ==
    IF i > Len(PidSeq) \/ S.crashed THEN S
    ELSE LET p == PidSeq[i]
             pe == S.pid[p]
         IN IF p < 2 \/ ~pe.b_valid \/ pe.psi.st # "null"
            THEN PATCleanEs(S, pmt_rm, i + 1)
            ELSE IF pmt_rm = <<>>
            THEN PATCleanEs(S, pmt_rm, i + 1)
            ELSE IF pe.p_owner = -1 \/ S.pid[pe.p_owner].psi.st # "live"
            THEN [S EXCEPT !.crashed = TRUE]
            ELSE IF \E j \in 1..Len(pmt_rm), g \in 1..Len(S.pid[pe.p_owner].psi.prg) :
                        S.pid[pe.p_owner].psi.prg[g].i_pid_pmt = pmt_rm[j]
            THEN PATCleanEs(PIDClean(IF pe.es.id # 0 THEN SetPIDFilter(S, p, FALSE)
                                     ELSE S, p),
                            pmt_rm, i + 1)
            ELSE PATCleanEs(S, pmt_rm, i + 1)

\* "Delete PMT pid": pmt_rm[i] and the ones after it
RECURSIVE PATCleanPmt(_, _, _)
PATCleanPmt(S, pmt_rm, i) ==
    IF i > Len(pmt_rm) THEN S
    ELSE LET p == pmt_rm[i]
             S1 == SetPIDFilter(S, p, FALSE)
             groups == [g \in 1..Len(S.pid[p].psi.prg) |->
                           Ev("DelGroup", S.pid[p].psi.prg[g].i_number, 0)]
             S2 == PIDClean([S1 EXCEPT !.out = @ \o groups], p)
         IN PATCleanPmt([S2 EXCEPT !.pmt = SelectSeq(@, LAMBDA q : q # p)],
                        pmt_rm, i + 1)

\* one turn of the "now create programs" loop
PATAddProgram(S, p_program) ==
    IF p_program.i_number = 0 THEN S
    ELSE LET p == p_program.i_pid
             S1 == ValidateDVBMeta(S, p)
             pmt == S1.pid[p]
         IN IF pmt.b_valid /\ pmt.psi.st # "live"
            THEN [S1 EXCEPT !.crashed = TRUE]
            ELSE IF pmt.b_valid /\ \E g \in 1..Len(pmt.psi.prg) :
                                       pmt.psi.prg[g].i_number = p_program.i_number
            THEN S1
            ELSE LET S2 == IF pmt.b_valid THEN S1
                           ELSE [S1 EXCEPT !.pmt = Append(@, p)]
                     S3 == [S2 EXCEPT !.pid[p] = PIDInit(@, TRUE, 0)]
                     n == Len(S3.pid[p].psi.prg)
                     S4 == [S3 EXCEPT !.pid[p].psi.prg[n].i_number = p_program.i_number,
                                      !.pid[p].psi.prg[n].i_pid_pmt = p]
                 IN IF ProgramIsSelected(S4, p_program.i_number)
                    THEN SetPIDFilter(
                             [S4 EXCEPT !.i_current_program =
                                            IF @ = 0 THEN p_program.i_number ELSE @],
                             p, TRUE)
                    ELSE S4

RECURSIVE PATCreate(_, _, _)
PATCreate(S, programs, k) ==
    IF k > Len(programs) \/ S.crashed THEN S
    ELSE PATCreate(PATAddProgram(S, programs[k]), programs, k + 1)

PATCallBack(S0, p_pat) ==
    LET S == [S0 EXCEPT !.out = <<>>]
    IN IF PATDiscards(S, p_pat) THEN S
       ELSE LET pmt_rm == SelectSeq(S.pmt, LAMBDA p : ~PATKeeps(S, p_pat, p))
                S1 == IF Len(S.pmt) > 0
                      THEN LET T == PATCleanEs(S, pmt_rm, 1)
                           IN IF T.crashed THEN T ELSE PATCleanPmt(T, pmt_rm, 1)
                      ELSE S
                S2 == PATCreate(S1, p_pat.programs, 1)
            IN IF S2.crashed THEN S2
               ELSE [S2 EXCEPT !.pid[0].psi.i_pat_version = p_pat.i_version]

---------------------------------------------------------------------------
(* PMTCallBack.  p_pmt = [i_program_number, i_version, b_current_next,     *)
(* i_pcr_pid, es], es a sequence of [i_pid, i_type, lang]; lang is the     *)
(* language of the entry's ISO 639 descriptor, "" without one.             *)

\* the category and codec es_format_Init gets for a stream type
PIDFillFormat(i_stream_type) ==
    CASE i_stream_type \in {1, 2, 128} -> [cat |-> "video", codec |-> "mpgv"]
      [] i_stream_type \in {3, 4}      -> [cat |-> "audio", codec |-> "mpga"]
      [] i_stream_type = 27            -> [cat |-> "video", codec |-> "h264"]
      [] i_stream_type = 129           -> [cat |-> "audio", codec |-> "a52"]
      [] i_stream_type = 130           -> [cat |-> "spu", codec |-> "scte27"]
      [] i_stream_type = 145           -> [cat |-> "audio", codec |-> "a52b"]
      [] i_stream_type = 146           -> [cat |-> "spu", codec |-> "spub"]
      [] OTHER                         -> [cat |-> "unknown", codec |-> "none"]

\* "First find this PMT declared in PAT": <<index in sys.pmt, index in prg>>
\* of the first program with the number, <<0, 0>> when there is none
PMTFind(S, i_program_number) ==
    LET hits == UNION {{<<i, g>> : g \in {h \in 1..Len(S.pid[S.pmt[i]].psi.prg) :
                           /\ S.pid[S.pmt[i]].psi.prg[h].i_number # 0
                           /\ S.pid[S.pmt[i]].psi.prg[h].i_number = i_program_number}} :
                       i \in 1..Len(S.pmt)}
    IN IF hits = {} THEN <<0, 0>>
       ELSE CHOOSE x \in hits :
                \A y \in hits : x[1] < y[1] \/ (x[1] = y[1] /\ x[2] <= y[2])

\* PMTDiscards without the comparison of versions
PMTDiscards_AnyVersion(prg, p_pmt) ==
    /\ prg.i_version # -1
    /\ ~p_pmt.b_current_next

\* the version test of PMTCallBack on the program found
PMTDiscards(prg, p_pmt) ==
    /\ prg.i_version # -1
    /\ \/ ~p_pmt.b_current_next
       \/ prg.i_version = p_pmt.i_version

\* pp_clean: the elementary-stream PIDs of the program, in table order
\* the clean list, were it of the registered streams only
PMTCleanList_Registered(S, pmtpid, i_number) ==
    SelectSeq(PidSeq, LAMBDA p : /\ S.pid[p].b_valid
                                 /\ S.pid[p].p_owner = pmtpid
                                 /\ S.pid[p].i_owner_number = i_number
                                 /\ S.pid[p].psi.st = "null"
                                 /\ S.pid[p].es.id # 0)

\* the clean list, were it of every stream the PMT PID owns
PMTCleanList_AnyProgram(S, pmtpid, i_number) ==
    SelectSeq(PidSeq, LAMBDA p : /\ S.pid[p].b_valid
                                 /\ S.pid[p].p_owner = pmtpid
                                 /\ S.pid[p].psi.st = "null")

PMTCleanList(S, pmtpid, i_number) ==
    SelectSeq(PidSeq, LAMBDA p : /\ S.pid[p].b_valid
                                 /\ S.pid[p].p_owner = pmtpid
                                 /\ S.pid[p].i_owner_number = i_number
                                 /\ S.pid[p].psi.st = "null")

\* PMTCanReuse without the comparison of languages
PMTCanReuse_AnyLanguage(pid, old_pid) ==
    /\ pid.es.codec = old_pid.es.codec
    /\ pid.es.i_extra = old_pid.es.i_extra
    /\ pid.es.i_extra = 0
    /\ Len(pid.extra_es) = Len(old_pid.extra_es)

\* "Check if we can avoid restarting the ES"
PMTCanReuse(pid, old_pid) ==
    /\ pid.es.codec = old_pid.es.codec
    /\ pid.es.i_extra = old_pid.es.i_extra
    /\ pid.es.i_extra = 0
    /\ Len(pid.extra_es) = Len(old_pid.extra_es)
    /\ pid.es.lang = old_pid.es.lang

\* PMTSetupEsTeletext with ts-split-es: the sub-streams behind the first of
\* a stream entry of type 0x06 whose teletext descriptor lists i_page pages
PMTExtraEs(p_es) ==
    IF p_es.i_type = 6 /\ "i_page" \in DOMAIN p_es
    THEN [k \in 1..(p_es.i_page - 1) |-> [NewEs EXCEPT !.cat = "spu", !.codec = "telx"]]
    ELSE <<>>

\* PMTAddEs, were it to count the primary stream only
PMTAddEs_CountsPrimary(C, pmtpid, prg, p_pmt, p_es) ==
    LET b_old == \E k \in 1..Len(C.clean) : C.clean[k] = p_es.i_pid
        S1 == ValidateDVBMeta(C.S, p_es.i_pid)
    IN IF ~b_old /\ S1.pid[p_es.i_pid].b_valid THEN [C EXCEPT !.S = S1]
       ELSE
       LET old_pid == S1.pid[p_es.i_pid]
           fmt == IF p_es.i_type = 6 /\ "i_page" \in DOMAIN p_es
                  THEN [cat |-> "spu", codec |-> "telx"]
                  ELSE PIDFillFormat(p_es.i_type)
           t0 == PIDInit(ZeroPid, FALSE,
                         IF S1.pid[pmtpid].psi.st = "live" THEN pmtpid ELSE -1)
           tmp == [t0 EXCEPT !.es.cat = fmt.cat,
                             !.es.codec = fmt.codec,
                             !.es.lang = IF fmt.cat = "audio" \/ fmt.cat = "spu"
                                         THEN p_es.lang ELSE "",
                             !.es.data_type = IF fmt.codec = "scte27"
                                              THEN "section" ELSE "pes",
                             !.extra_es = PMTExtraEs(p_es),
                             !.i_owner_number = prg.i_number,
                             !.b_seen = old_pid.b_seen]
           b_reuse == tmp.es.cat # "unknown" /\ b_old /\ PMTCanReuse(tmp, old_pid)
           b_add == tmp.es.cat # "unknown" /\ ~b_reuse
           pid == IF b_reuse
                  THEN [tmp EXCEPT !.i_cc = old_pid.i_cc, !.es = old_pid.es,
                                   !.extra_es = old_pid.extra_es]
                  ELSE IF b_add
                  THEN [tmp EXCEPT !.es.id = 1,
                                   !.extra_es = [k \in 1..Len(@) |->
                                                    [@[k] EXCEPT !.id = 1]]]
                  ELSE tmp
           S2 == IF b_reuse
                 THEN [S1 EXCEPT !.pid[p_es.i_pid].es = tmp.es,
                                 !.pid[p_es.i_pid].extra_es = tmp.extra_es]
                 ELSE IF b_add
                 THEN [S1 EXCEPT !.out = @ \o [k \in 1..(1 + Len(tmp.extra_es)) |->
                                                  Ev("Add", p_es.i_pid, k - 1)],
                                 !.i_pmt_es = @ + 1]
                 ELSE S1
           S3 == IF b_old THEN PIDClean(S2, p_es.i_pid) ELSE S2
           S4 == [S3 EXCEPT !.pid[p_es.i_pid] = pid]
           S5 == IF ProgramIsSelected(S4, prg.i_number) /\ pid.es.id # 0
                 THEN SetPIDFilter(S4, p_es.i_pid, TRUE) ELSE S4
       IN [S |-> S5, clean |-> SelectSeq(C.clean, LAMBDA q : q # p_es.i_pid)]

\* one turn of the loop over the PMT's stream entries; C = [S, clean]
PMTAddEs(C, pmtpid, prg, p_pmt, p_es) ==
    LET b_old == \E k \in 1..Len(C.clean) : C.clean[k] = p_es.i_pid
        S1 == ValidateDVBMeta(C.S, p_es.i_pid)
    IN IF ~b_old /\ S1.pid[p_es.i_pid].b_valid THEN [C EXCEPT !.S = S1]
       ELSE
       LET old_pid == S1.pid[p_es.i_pid]
           fmt == IF p_es.i_type = 6 /\ "i_page" \in DOMAIN p_es
                  THEN [cat |-> "spu", codec |-> "telx"]
                  ELSE PIDFillFormat(p_es.i_type)
           t0 == PIDInit(ZeroPid, FALSE,
                         IF S1.pid[pmtpid].psi.st = "live" THEN pmtpid ELSE -1)
           tmp == [t0 EXCEPT !.es.cat = fmt.cat,
                             !.es.codec = fmt.codec,
                             !.es.lang = IF fmt.cat = "audio" \/ fmt.cat = "spu"
                                         THEN p_es.lang ELSE "",
                             !.es.data_type = IF fmt.codec = "scte27"
                                              THEN "section" ELSE "pes",
                             !.extra_es = PMTExtraEs(p_es),
                             !.i_owner_number = prg.i_number,
                             !.b_seen = old_pid.b_seen]
           b_reuse == tmp.es.cat # "unknown" /\ b_old /\ PMTCanReuse(tmp, old_pid)
           b_add == tmp.es.cat # "unknown" /\ ~b_reuse
           \* the entry and the entry left in old_pid for PIDClean
           pid == IF b_reuse
                  THEN [tmp EXCEPT !.i_cc = old_pid.i_cc, !.es = old_pid.es,
                                   !.extra_es = old_pid.extra_es]
                  ELSE IF b_add
                  THEN [tmp EXCEPT !.es.id = 1,
                                   !.extra_es = [k \in 1..Len(@) |->
                                                    [@[k] EXCEPT !.id = 1]]]
                  ELSE tmp
           S2 == IF b_reuse
                 THEN [S1 EXCEPT !.pid[p_es.i_pid].es = tmp.es,
                                 !.pid[p_es.i_pid].extra_es = tmp.extra_es]
                 ELSE IF b_add
                 THEN [S1 EXCEPT !.out = @ \o [k \in 1..(1 + Len(tmp.extra_es)) |->
                                                  Ev("Add", p_es.i_pid, k - 1)],
                                 !.i_pmt_es = @ + 1 + Len(tmp.extra_es)]
                 ELSE S1
           S3 == IF b_old THEN PIDClean(S2, p_es.i_pid) ELSE S2
           S4 == [S3 EXCEPT !.pid[p_es.i_pid] = pid]
           S5 == IF ProgramIsSelected(S4, prg.i_number) /\ pid.es.id # 0
                 THEN SetPIDFilter(S4, p_es.i_pid, TRUE) ELSE S4
       IN [S |-> S5, clean |-> SelectSeq(C.clean, LAMBDA q : q # p_es.i_pid)]

RECURSIVE PMTEsLoop(_, _, _, _, _)
PMTEsLoop(C, pmtpid, prg, p_pmt, k) ==
    IF k > Len(p_pmt.es) THEN C
    ELSE PMTEsLoop(PMTAddEs(C, pmtpid, prg, p_pmt, p_pmt.es[k]), pmtpid, prg, p_pmt, k + 1)

\* the loop over what is left of pp_clean at the end of PMTCallBack
RECURSIVE PMTCleanLoop(_, _, _, _)
PMTCleanLoop(S, clean, i_number, i) ==
    IF i > Len(clean) THEN S
    ELSE PMTCleanLoop(PIDClean(IF ProgramIsSelected(S, i_number)
                               THEN SetPIDFilter(S, clean[i], FALSE) ELSE S,
                               clean[i]),
                      clean, i_number, i + 1)

\* PMTSetCa, were the table never freed
PMTSetCa_Keeps(S, i_number) ==
    IF ProgramIsSelected(S, i_number)
    THEN [S EXCEPT !.out = Append(@, Ev("PrivateIdCa", i_number, 0))]
    ELSE S

\* "Set CAM descrambling": the table goes to the access of a selected
\* program, and is freed when it did not go or the access did not take it
PMTSetCa(S, i_number) ==
    IF ProgramIsSelected(S, i_number)
    THEN [S EXCEPT !.out = Append(@, Ev("PrivateIdCa", i_number, 0))
                              \o (IF S.b_ca THEN <<>>
                                  ELSE <<Ev("DeletePMT", i_number, 0)>>)]
    ELSE [S EXCEPT !.out = Append(@, Ev("DeletePMT", i_number, 0))]

PMTCallBack(S0, p_pmt) ==
    LET S == [S0 EXCEPT !.out = <<>>]
    IN LET at == PMTFind(S, p_pmt.i_program_number)
       IN IF \E i \in 1..Len(S.pmt) : /\ S.pid[S.pmt[i]].psi.st # "live"
                                      /\ (at[1] = 0 \/ i < at[1])
          THEN [S EXCEPT !.crashed = TRUE]
          ELSE IF at[1] = 0 THEN S
          ELSE
          LET pmtpid == S.pmt[at[1]]
              prg0 == S.pid[pmtpid].psi.prg[at[2]]
          IN IF PMTDiscards(prg0, p_pmt) THEN S
             ELSE
             LET clean == PMTCleanList(S, pmtpid, prg0.i_number)
                 S1 == [S EXCEPT !.pid[pmtpid].psi.prg[at[2]].i_pid_pcr = p_pmt.i_pcr_pid,
                                 !.pid[pmtpid].psi.prg[at[2]].i_version = p_pmt.i_version]
                 S2 == ValidateDVBMeta(S1, p_pmt.i_pcr_pid)
                 S3 == IF ProgramIsSelected(S2, prg0.i_number)
                       THEN SetPIDFilter(S2, p_pmt.i_pcr_pid, TRUE) ELSE S2
                 C == PMTEsLoop([S |-> S3, clean |-> clean], pmtpid, prg0, p_pmt, 1)
             IN PMTCleanLoop(PMTSetCa(C.S, prg0.i_number), C.clean, prg0.i_number, 1)

---------------------------------------------------------------------------
(* SDTCallBack and PSINewTableCallBack.  p_sdt = [i_version,               *)
(* b_current_next, services], services a sequence of service ids.          *)

SDTDiscards(S, p_sdt) ==
    /\ S.pid[17].psi.i_sdt_version # -1
    /\ \/ ~p_sdt.b_current_next
       \/ p_sdt.i_version = S.pid[17].psi.i_sdt_version

SDTCallBack(S0, p_sdt) ==
    LET S == [S0 EXCEPT !.out = <<>>]
    IN IF SDTDiscards(S, p_sdt) THEN S
       ELSE [S EXCEPT !.out = [k \in 1..Len(p_sdt.services) |->
                                   Ev("GroupMeta", p_sdt.services[k], 0)],
                      !.pid[17].psi.i_sdt_version = p_sdt.i_version]

\* PSINewTableCallBack, were it to go by the table id alone
PSINewTableCallBack_Unordered(S, i_table_id) ==
    IF i_table_id = 66
    THEN [S EXCEPT !.attached = @ \cup {"sdt"}, !.out = <<>>]
    ELSE IF i_table_id = 78 \/ (i_table_id >= 80 /\ i_table_id <= 95)
    THEN [S EXCEPT !.attached = @ \cup {"eit"}, !.out = <<>>]
    ELSE IF i_table_id = 112 \/ i_table_id = 115
    THEN [S EXCEPT !.attached = @ \cup {"tdt"}, !.out = <<>>]
    ELSE [S EXCEPT !.out = <<>>]

\* i_table_id: 66 (0x42) SDT, 78 (0x4e) EIT, 112 (0x70) TDT
PSINewTableCallBack(S, i_table_id) ==
    IF S.pid[0].psi.i_pat_version # -1 /\ i_table_id = 66
    THEN [S EXCEPT !.attached = @ \cup {"sdt"}, !.out = <<>>]
    ELSE IF S.pid[17].psi.i_sdt_version # -1
            /\ (i_table_id = 78 \/ (i_table_id >= 80 /\ i_table_id <= 95))
    THEN [S EXCEPT !.attached = @ \cup {"eit"}, !.out = <<>>]
    ELSE IF S.pid[17].psi.i_sdt_version # -1 /\ (i_table_id = 112 \/ i_table_id = 115)
    THEN [S EXCEPT !.attached = @ \cup {"tdt"}, !.out = <<>>]
    ELSE [S EXCEPT !.out = <<>>]

---------------------------------------------------------------------------
(* The tables the PSI decoders deliver.                                    *)

MaxVersion == 1

Versions == 0..MaxVersion

\* program lists: two programs sharing PMT PID 32, program 1 alone, the two
\* programs on PMT PIDs of their own, a NIT entry (number 0) before program 2
PatPrograms == {<<[i_number |-> 0, i_pid |-> 33], [i_number |-> 1, i_pid |-> 32],
                  [i_number |-> 2, i_pid |-> 32]>>,
                <<[i_number |-> 1, i_pid |-> 32]>>,
                <<[i_number |-> 1, i_pid |-> 32], [i_number |-> 2, i_pid |-> 33]>>}

PatTables == [i_version : Versions, b_current_next : BOOLEAN, programs : PatPrograms]

\* stream lists: MPEG-2 video on 48, with MPEG audio on 49, a private
\* stream (type 6, no descriptor) on 49
PmtStreams == {<<[i_pid |-> 48, i_type |-> 2, lang |-> ""]>>,
               <<[i_pid |-> 48, i_type |-> 2, lang |-> ""],
                 [i_pid |-> 49, i_type |-> 3, lang |-> ""]>>}

PmtTables == [i_program_number : {1, 2}, i_version : Versions,
              b_current_next : BOOLEAN, i_pcr_pid : {48}, es : PmtStreams]

SdtTables == [i_version : Versions, b_current_next : BOOLEAN, services : {<<1>>}]

---------------------------------------------------------------------------
(* The table-driven control plane: the callbacks in any order.  op records *)
(* what the last callback was given and what it met: the table's version   *)
(* and current/next flag, the version stored for the table's identity, the *)
(* programs tracked before it, and whether it changed anything.            *)

\* the numbers of the programs the session tracks
Tracked(S) == UNION {{S.pid[S.pmt[i]].psi.prg[g].i_number :
                             g \in 1..Len(S.pid[S.pmt[i]].psi.prg)} :
                         i \in 1..Len(S.pmt)}

\* the valid elementary-stream PIDs a program owns
EsOf(S, i_number) == {p \in PIDS : /\ S.pid[p].b_valid
                                    /\ S.pid[p].es.st = "live"
                                    /\ S.pid[p].i_owner_number = i_number}

\* the handler left a trace: a member of sys differs or a collaborator was called
Changed(S, T) == T.out # <<>> \/ [T EXCEPT !.out = <<>>] # [S EXCEPT !.out = <<>>]

Ran(name, i_version, b_current_next, pre_version, listed, S, T) ==
    [name |-> name, i_version |-> i_version, b_current_next |-> b_current_next,
     pre_version |-> pre_version,
     dropped |-> IF name = "PAT" THEN Tracked(S) \ listed ELSE {},
     kept |-> IF name = "PAT" THEN Tracked(S) \cap listed ELSE {},
     changed |-> Changed(S, T)]

PsiInit ==
    /\ sys = OpenSys(TRUE)
    /\ op = Ran("Open", -1, FALSE, -1, {}, sys, sys)

DeliverPAT ==
    \E p_pat \in PatTables :
        /\ ~sys.crashed
        /\ sys' = PATCallBack(sys, p_pat)
        /\ op' = Ran("PAT", p_pat.i_version, p_pat.b_current_next,
                     sys.pid[0].psi.i_pat_version,
                     {p_pat.programs[k].i_number : k \in 1..Len(p_pat.programs)},
                     sys, sys')

DeliverPMT ==
    \E p_pmt \in PmtTables :
        /\ ~sys.crashed
        /\ sys' = PMTCallBack(sys, p_pmt)
        /\ op' = Ran("PMT", p_pmt.i_version, p_pmt.b_current_next,
                     LET at == PMTFind(sys, p_pmt.i_program_number)
                     IN IF at[1] = 0 THEN -1
                        ELSE sys.pid[sys.pmt[at[1]]].psi.prg[at[2]].i_version,
                     {}, sys, sys')

PsiNext == DeliverPAT \/ DeliverPMT

SpecPsi == PsiInit /\ [][PsiNext]_vars

---------------------------------------------------------------------------
(* The three table types together, on one program with one stream: the     *)
(* PAT and PMT of a single-program multiplex, and the SDT once             *)
(* PSINewTableCallBack has attached its decoder.                           *)

SiPatTables == [i_version : Versions, b_current_next : BOOLEAN,
                programs : {<<[i_number |-> 1, i_pid |-> 32]>>}]

SiPmtTables == [i_program_number : {1}, i_version : Versions,
                b_current_next : BOOLEAN, i_pcr_pid : {48},
                es : {<<[i_pid |-> 48, i_type |-> 2, lang |-> ""]>>}]

SiPAT ==
    \E p_pat \in SiPatTables :
        /\ ~sys.crashed
        /\ sys' = PATCallBack(sys, p_pat)
        /\ op' = Ran("PAT", p_pat.i_version, p_pat.b_current_next,
                     sys.pid[0].psi.i_pat_version, {1}, sys, sys')

SiPMT ==
    \E p_pmt \in SiPmtTables :
        /\ ~sys.crashed
        /\ sys' = PMTCallBack(sys, p_pmt)
        /\ op' = Ran("PMT", p_pmt.i_version, p_pmt.b_current_next,
                     LET at == PMTFind(sys, p_pmt.i_program_number)
                     IN IF at[1] = 0 THEN -1
                        ELSE sys.pid[sys.pmt[at[1]]].psi.prg[at[2]].i_version,
                     {}, sys, sys')

NewTable ==
    \E i_table_id \in {66, 78, 112} :
        /\ ~sys.crashed
        /\ sys.b_dvb_meta
        /\ sys' = PSINewTableCallBack(sys, i_table_id)
        /\ op' = Ran("NewTable", -1, FALSE, -1, {}, sys, sys')

DeliverSDT ==
    \E p_sdt \in SdtTables :
        /\ ~sys.crashed
        /\ "sdt" \in sys.attached
        /\ sys' = SDTCallBack(sys, p_sdt)
        /\ op' = Ran("SDT", p_sdt.i_version, p_sdt.b_current_next,
                     sys.pid[17].psi.i_sdt_version, {}, sys, sys')

SiNext == SiPAT \/ SiPMT \/ NewTable \/ DeliverSDT

SpecSi == PsiInit /\ [][SiNext]_vars

---------------------------------------------------------------------------
(* Claims on the table callbacks.                                          *)

\* how many ES_OUT_DEL_GROUP calls the last handler made for a program
DelGroups(i_number) == Count(sys.out, LAMBDA e : e.ev = "DelGroup" /\ e.a = i_number)

\* C1: once a PAT of version v is applied, a current PAT of the same version
\* v is a no-op: no member of the session changes (programs, PID entries,
\* stored version), and no PID-filter request or ES_OUT_DEL_GROUP is issued.
C1_SameVersionPatIsNoOp ==
    (/\ op.name = "PAT"
     /\ op.b_current_next
     /\ op.pre_version # -1
     /\ op.i_version = op.pre_version)
    => /\ ~op.changed
       /\ sys.out = <<>>
       /\ sys.pid[0].psi.i_pat_version = op.i_version

\* C1 witness: a current PAT of the stored version met a session with a
\* tracked program and one of its elementary streams.
C1_Witness ==
    /\ op.name = "PAT"
    /\ op.b_current_next
    /\ op.pre_version # -1
    /\ op.i_version = op.pre_version
    /\ \E P \in Tracked(sys) : EsOf(sys, P) # {}

\* C2 as stated: after an accepted PAT that no longer lists a tracked program
\* P, no valid elementary-stream PID of P remains, P is not tracked, exactly
\* one ES_OUT_DEL_GROUP was issued for P, and none for a program still listed.
C2_DroppedProgramIsRemoved ==
    (op.name = "PAT" /\ op.changed)
    => /\ \A P \in op.dropped : /\ EsOf(sys, P) = {}
                                /\ P \notin Tracked(sys)
                                /\ DelGroups(P) = 1
       /\ \A K \in op.kept : DelGroups(K) = 0

\* C3 as stated: a PAT, PMT or SDT is applied (leaves a trace in the session)
\* only if it is current and its version differs from the stored one, the
\* stored version -1 included.
C3_AppliedOnlyIfCurrentAndNewVersion ==
    (op.name \in {"PAT", "PMT", "SDT"} /\ op.changed)
    => (op.b_current_next /\ op.i_version # op.pre_version)

\* a current PMT of the version stored for its program
PmtSameVersion ==
    /\ op.name = "PMT"
    /\ op.b_current_next
    /\ op.pre_version # -1
    /\ op.i_version = op.pre_version

(* C14.  A PMT delivered again with the version stored for its program and *)
(* the current flag set changes nothing: the PID table, the program's PCR  *)
(* PID and version, the count of registered streams stay as they were, and *)
(* the sink and the PID filter get no call.                                *)
C14_SameVersionPmtIsNoOp ==
    PmtSameVersion => (~op.changed /\ sys.out = <<>>)

\* C14, witness: the PMT delivered again met a program with a registered
\* stream, and registered streams are counted
C14_Witness ==
    /\ PmtSameVersion
    /\ sys.i_pmt_es > 0
    /\ \E P \in Tracked(sys) : EsOf(sys, P) # {}

---------------------------------------------------------------------------
(* The same tables on an access that takes the table of a program for      *)
(* descrambling or does not.  op records the PMT, whether a program was    *)
(* found for it and passed the version test, whether the program was       *)
(* selected, and whether PID table, program, stream count and sink were    *)
(* left as they were.                                                      *)

\* the program a PMT is for, NewPrg when there is none
PMTProgram(S, i_program_number) ==
    LET at == PMTFind(S, i_program_number)
    IN IF at[1] = 0 THEN NewPrg ELSE S.pid[S.pmt[at[1]]].psi.prg[at[2]]

NoPmt == [i_program_number |-> 0, i_version |-> 0, b_current_next |-> FALSE,
          i_pcr_pid |-> 0, es |-> <<>>]

CaRan(name, p_pmt, S, T) ==
    [name |-> name, p_pmt |-> p_pmt,
     b_accept |-> /\ name = "PMT"
                  /\ PMTFind(S, p_pmt.i_program_number)[1] # 0
                  /\ ~PMTDiscards(PMTProgram(S, p_pmt.i_program_number), p_pmt),
     b_selected |-> ProgramIsSelected(S, p_pmt.i_program_number),
     b_same |-> /\ T.pid = S.pid
                /\ T.i_pmt_es = S.i_pmt_es
                /\ \A k \in 1..Len(T.out) : T.out[k].ev \notin {"Add", "Del"},
     declared |-> {q \in {p_pmt.es[k].i_pid : k \in 1..Len(p_pmt.es)} :
                      ~S.pid[q].b_valid},
     i_pmt_es |-> S.i_pmt_es]

CaInit ==
    /\ sys \in {[OpenSys(TRUE) EXCEPT !.b_ca = b] : b \in BOOLEAN}
    /\ op = CaRan("Open", NoPmt, sys, sys)

CaPAT ==
    \E p_pat \in PatTables :
        /\ ~sys.crashed
        /\ sys' = PATCallBack(sys, p_pat)
        /\ op' = CaRan("PAT", NoPmt, sys, sys')

CaPMT ==
    \E p_pmt \in PmtTables :
        /\ ~sys.crashed
        /\ sys' = PMTCallBack(sys, p_pmt)
        /\ op' = CaRan("PMT", p_pmt, sys, sys')

CaNext == CaPAT \/ CaPMT

SpecCa == CaInit /\ [][CaNext]_vars

\* a PMT that passed the version test, for a program that is not selected
\* or on an access that does not take the table
PmtNotTaken ==
    /\ op.name = "PMT" /\ op.b_accept /\ ~sys.crashed
    /\ (~op.b_selected \/ ~sys.b_ca)

(* C16, as amended.  A PMT with a new version for a program that is not    *)
(* selected, or that the access does not take for descrambling, IS         *)
(* APPLIED: its version and PCR PID are stored, each PID it declares that  *)
(* was free becomes a valid stream entry, registered with the sink and     *)
(* counted when its category is known.  What differs is that the table is  *)
(* freed once, and that for a program not selected no PID filter is        *)
(* requested and the access is not asked.                                  *)
C16_NotTakenPmtIsApplied ==
    PmtNotTaken =>
        LET prg == PMTProgram(sys, op.p_pmt.i_program_number)
        IN /\ prg.i_version = op.p_pmt.i_version
           /\ prg.i_pid_pcr = op.p_pmt.i_pcr_pid
           /\ \A q \in op.declared :
                  /\ sys.pid[q].b_valid /\ sys.pid[q].es.st = "live"
                  /\ sys.pid[q].i_owner_number = op.p_pmt.i_program_number
                  /\ sys.pid[q].es.id # 0
                  /\ Count(sys.out, LAMBDA e : e.ev = "Add" /\ e.a = q) = 1
           /\ sys.i_pmt_es = op.i_pmt_es
                  + Count(sys.out, LAMBDA e : e.ev = "Add")
                  - Count(sys.out, LAMBDA e : e.ev = "Del")
           /\ Count(sys.out, LAMBDA e : e.ev = "DeletePMT") = 1
           /\ ~op.b_selected =>
                  \A k \in 1..Len(sys.out) :
                      sys.out[k].ev \notin {"Filter", "PrivateIdCa"}

\* C16, witness: program 1 is selected, and the first PMT of program 2
\* registers its two streams
C16_Witness ==
    /\ PmtNotTaken /\ ~op.b_selected
    /\ sys.i_current_program = 1 /\ op.p_pmt.i_program_number = 2
    /\ op.declared = {48, 49} /\ ~op.b_same
    /\ sys.i_pmt_es = op.i_pmt_es + 2

(* C16, as stated: a PMT with a new version for a program that is not      *)
(* selected, or whose descrambling setup fails, changes nothing: the       *)
(* program's version and PCR PID, the PID table, the count of registered   *)
(* streams and the sink are as before.                                     *)
C16_NotTakenPmtIsDiscarded ==
    PmtNotTaken =>
        /\ op.b_same
        /\ PMTProgram(sys, op.p_pmt.i_program_number).i_version # op.p_pmt.i_version

---------------------------------------------------------------------------
(* Tables that name the PIDs of SDT, EIT and TDT (0x11, 0x12, 0x14) as PMT *)
(* PID, PCR PID or stream PID, next to tables that do not, and the SDT.    *)
(* op records the handler, whether b_dvb_meta was set when it began, and   *)
(* the PIDs the table named.                                               *)

MetaPatTables == [i_version : Versions, b_current_next : {TRUE},
                  programs : {<<[i_number |-> 1, i_pid |-> 32]>>,
                              <<[i_number |-> 1, i_pid |-> 17]>>}]

MetaPmtTables == [i_program_number : {1}, i_version : Versions,
                  b_current_next : {TRUE}, i_pcr_pid : {48, 18},
                  es : {<<[i_pid |-> 48, i_type |-> 2, lang |-> ""]>>,
                        <<[i_pid |-> 48, i_type |-> 2, lang |-> ""],
                          [i_pid |-> 20, i_type |-> 3, lang |-> ""]>>}]

MetaRan(name, named, S) == [name |-> name, named |-> named, b_dvb_meta |-> S.b_dvb_meta]

MetaInit ==
    /\ sys = OpenSys(TRUE)
    /\ op = MetaRan("Open", {}, sys)

MetaPAT ==
    \E p_pat \in MetaPatTables :
        /\ ~sys.crashed
        /\ sys' = PATCallBack(sys, p_pat)
        /\ op' = MetaRan("PAT", {p_pat.programs[k].i_pid : k \in 1..Len(p_pat.programs)},
                         sys)

MetaPMT ==
    \E p_pmt \in MetaPmtTables :
        /\ ~sys.crashed
        /\ sys' = PMTCallBack(sys, p_pmt)
        /\ op' = MetaRan("PMT", {p_pmt.i_pcr_pid}
                                 \cup {p_pmt.es[k].i_pid : k \in 1..Len(p_pmt.es)}, sys)

MetaNewTable ==
    \E i_table_id \in {66, 78, 112} :
        /\ ~sys.crashed
        /\ sys.b_dvb_meta
        /\ sys' = PSINewTableCallBack(sys, i_table_id)
        /\ op' = MetaRan("NewTable", {}, sys)

MetaSDT ==
    \E p_sdt \in SdtTables :
        /\ ~sys.crashed
        /\ "sdt" \in sys.attached
        /\ sys' = SDTCallBack(sys, p_sdt)
        /\ op' = MetaRan("SDT", {}, sys)

MetaNext == MetaPAT \/ MetaPMT \/ MetaNewTable \/ MetaSDT

SpecMeta == MetaInit /\ [][MetaNext]_vars

\* the entry is a valid PSI entry
ValidPsi(S, p) == S.pid[p].b_valid /\ S.pid[p].psi.st = "live"

\* the last handler disabled the mode
MetaDisabled == op.b_dvb_meta /\ ~sys.b_dvb_meta

(* C17, as amended.  b_dvb_meta, once false, is false in every later       *)
(* state; and after the handler that disabled it, a PID among 0x11, 0x12,  *)
(* 0x14 is a valid PSI entry ONLY IF the table that disabled the mode      *)
(* named it as the PMT PID of a program, whose PMT entry it then is.       *)
C17_OneWayAndTornDownUnlessPmt ==
    /\ ~op.b_dvb_meta => ~sys.b_dvb_meta
    /\ MetaDisabled =>
           \A p \in {17, 18, 20} :
               ValidPsi(sys, p) =>
                   /\ op.name = "PAT" /\ p \in op.named
                   /\ \E i \in 1..Len(sys.pmt) : sys.pmt[i] = p
                   /\ Len(sys.pid[p].psi.prg) = 1

\* C17, witness: a PMT whose PCR PID is 0x12 disabled the mode, and the
\* three entries are gone
C17_Witness ==
    /\ MetaDisabled /\ op.name = "PMT" /\ 18 \in op.named
    /\ \A p \in {17, 18, 20} : ~sys.pid[p].b_valid

(* C17, as stated: b_dvb_meta, once false, stays false, and in the state   *)
(* right after it is disabled none of the PIDs 0x11, 0x12, 0x14 is a valid *)
(* PSI entry.                                                              *)
C17_OneWayAndTornDown ==
    /\ ~op.b_dvb_meta => ~sys.b_dvb_meta
    /\ MetaDisabled => \A p \in {17, 18, 20} : ~ValidPsi(sys, p)

---------------------------------------------------------------------------
(* The correction on its own: a session whose sample table CheckPCR built  *)
(* on a stream of ProbeSize bytes with one rollover of the PCR, and        *)
(* readings of the reference PID taken anywhere in the stream.             *)

\* the stride of CheckPCR's probes, i_size / i_pcrs_num, in packets
MaxProbeStride == 2

ProbeStrides == 1..MaxProbeStride

\* the last sample before the rollover is one of these, the first one after
\* it one of those, and the samples grow by one of the steps per sample
HighPcrs == {Sub(TwoTo33, Big(100)), PCR_WRAP}

LowPcrs == {Big(0), Big(40)}

PcrSteps == {0, 1, 1000}

\* the table CheckPCR leaves: sample i taken where the probe at
\* i * stride packets ended, the rollover between samples k - 1 and k
PcrTable(stride, k, hi, lo, d) ==
    [i_pcrs_num |-> PcrsNum,
     p_pcrs |-> [i \in 1..PcrsNum |->
                    IF i - 1 < k THEN Sub(hi, Big((k - i) * d))
                    ELSE Add(lo, Big((i - 1 - k) * d))],
     p_pos |-> [i \in 1..PcrsNum |->
                   IF i = 1 THEN 0 ELSE (i - 1) * stride * 188 + 188],
     i_size |-> PcrsNum * stride * 188,
     i_pos |-> 0,
     i_current_pcr |-> Sub(hi, Big((k - 1) * d))]

PcrTables == {PcrTable(stride, k, hi, lo, d) :
                  stride \in ProbeStrides, k \in {1, 5, 9},
                  hi \in HighPcrs, lo \in LowPcrs, d \in PcrSteps}

\* raw 33-bit readings
Readings == {Big(0), Big(50), Big(2000), Sub(TwoTo33, Big(100)), PCR_WRAP}

\* the C index of the sample the for loop stops on
LastSample(S) == AdjustLoop(S, 1, Big(0))[1] - 1

\* the rollovers among the samples 0..j
TableRollovers(S, j) ==
    Cardinality({i \in 1..j : Lt(S.p_pcrs[i + 1], S.p_pcrs[i])})

PcrInit ==
    /\ sys \in PcrTables
    /\ op = [name |-> "Open", raw |-> Big(0)]

\* a packet of the reference PID read up to offset i_pos carries the PCR
\* raw: i_current_pcr = AdjustPCRWrapAround( p_demux, i_pcr )
PcrReading ==
    \E raw \in Readings, n \in 1..(sys.i_size \div 188) :
        /\ op.name = "Open"
        /\ sys' = [sys EXCEPT !.i_pos = n * 188,
                              !.i_current_pcr =
                                  AdjustPCRWrapAround([sys EXCEPT !.i_pos = n * 188], raw)]
        /\ op' = [name |-> "Adjust", raw |-> raw]

PcrNext == PcrReading

SpecPcr == PcrInit /\ [][PcrNext]_vars

\* the rollovers AdjustPCRWrapAround has to account for: those of the table
\* up to the offset, and the one between the last sample and the reading
Rollovers(S, raw) ==
    TableRollovers(S, LastSample(S))
    + (IF Lt(raw, S.p_pcrs[LastSample(S) + 1]) THEN 1 ELSE 0)

\* C6 as stated: the corrected value is raw + k * 2^33, k the number of
\* rollovers detected up to the offset of the reading (50 + 2^33 for the
\* reading 50 after the sample 2^33 - 100).
C6_AddsModulusPerRollover ==
    op.name = "Adjust"
    => sys.i_current_pcr = Add(op.raw, MulN(TwoTo33, Rollovers(sys, op.raw)))

\* C7: with one rollover in the table, a 33-bit reading taken at or after a
\* sample's offset is corrected to at least the corrected value of the last
\* sample at or before that offset.
C7_NeverBelowLastSample ==
    op.name = "Adjust"
    => Le(Add(sys.p_pcrs[LastSample(sys) + 1],
              MulN(PCR_WRAP, TableRollovers(sys, LastSample(sys)))),
          sys.i_current_pcr)

\* C7 witness: a reading taken after the table's rollover, itself below the
\* last sample before it (a second rollover since that sample).
C7_Witness ==
    /\ op.name = "Adjust"
    /\ TableRollovers(sys, LastSample(sys)) = 1
    /\ Lt(op.raw, sys.p_pcrs[LastSample(sys) + 1])

---------------------------------------------------------------------------
(* Transport packets and blocks.  A packet is the record of the fields the *)
(* demuxer reads from its 188 bytes: i_pid, b_tei (p[1]&0x80),             *)
(* b_unit_start (p[1]&0x40), b_scrambled (p[3]&0x80), b_adaptation         *)
(* (p[3]&0x20), b_payload (p[3]&0x10), i_cc (p[3]&0x0f), i_af (p[4]),      *)
(* i_af_flags (p[5]), pcr (p[6] .. p[10]) and data, the leading bytes of   *)
(* what follows the header and the adaptation field.  A block_t is         *)
(* [p_buffer, i_buffer, i_flags, i_pts, i_dts]: i_buffer is its length,    *)
(* p_buffer its leading bytes (the bytes after them are elementary-stream  *)
(* data and read as 0), i_flags is BLOCK_FLAG_CORRUPTED, and a chain of    *)
(* blocks is a sequence.  No descrambler is configured (p_sys->csa NULL).  *)

TS_PACKET_SIZE_188 == 188

\* VLC_TS_0; VLC_TS_INVALID is 0
VLC_TS_0 == 1

Min(a, b) == IF a < b THEN a ELSE b

\* F of the value of x: x is evaluated once, as the statement that assigns
\* a local variable does
Bind(x, F(_)) == CHOOSE r \in {F(v) : v \in {x}} : TRUE

\* x & m on non-negative integers
RECURSIVE BitAnd(_, _)
BitAnd(x, m) ==
    IF x = 0 \/ m = 0 THEN 0
    ELSE (x % 2) * (m % 2) + 2 * BitAnd(x \div 2, m \div 2)

\* (mtime_t)x << n for a byte x
Shl(x, n) == IF n >= 20 THEN <<x * 2^(n - 20), 0>> ELSE Big(x * 2^n)

\* VLC_TS_0 + x * 100 / 9
Stamp(x) == Add(Big(VLC_TS_0), DivN(MulN(x, 100), 9))

BlockByte(b, i) == IF i <= Len(b.p_buffer) THEN b.p_buffer[i] ELSE 0

ChainSize(chain) == SeqSum([k \in 1..Len(chain) |-> chain[k].i_buffer])

\* the first n bytes of a chain
RECURSIVE block_ChainExtract(_, _)
block_ChainExtract(chain, n) ==
    IF chain = <<>> \/ n = 0 THEN <<>>
    ELSE LET c == Min(Head(chain).i_buffer, n)
         IN [i \in 1..c |-> BlockByte(Head(chain), i)]
            \o block_ChainExtract(Tail(chain), n - c)

\* one block with the chain's data and the first block's flags and dates
block_ChainGather(chain) ==
    [Head(chain) EXCEPT !.p_buffer = block_ChainExtract(chain, 34),
                        !.i_buffer = ChainSize(chain)]

\* p_data->i_flags |= BLOCK_FLAG_CORRUPTED
Corrupt(chain) == IF chain = <<>> THEN chain ELSE [chain EXCEPT ![1].i_flags = TRUE]

\* GetWBE( &p_bk->p_buffer[k] ) and GetDWBE
GetWBE(b, k) == BlockByte(b, k + 1) * 256 + BlockByte(b, k + 2)

GetDWBE(b, k) ==
    Add(Shl(BlockByte(b, k + 1), 24),
        Big(BlockByte(b, k + 2) * 65536 + BlockByte(b, k + 3) * 256 + BlockByte(b, k + 4)))

---------------------------------------------------------------------------
(* GetPCR and PCRHandle.                                                   *)

\* the fields lie on disjoint bits, so that | is +
GetPCR(pk) ==
    IF pk.b_adaptation /\ BitAnd(pk.i_af_flags, 16) # 0 /\ pk.i_af >= 7
    THEN Add(Shl(pk.pcr[1], 25),
         Add(Shl(pk.pcr[2], 17),
             Big(pk.pcr[3] * 512 + pk.pcr[4] * 2 + pk.pcr[5] \div 128)))
    ELSE Big(-1)

\* "Search program and set the PCR": the loop over p_sys->pmt
RECURSIVE PCRGroupLoop(_, _, _, _)
PCRGroupLoop(S0, i_pid, i_pcr, i) ==
    Bind(S0, LAMBDA S :
        IF i > Len(S.pmt) THEN S
        ELSE IF S.pid[S.pmt[i]].psi.st # "live" THEN [S EXCEPT !.crashed = TRUE]
        ELSE
        LET pmtpid == S.pmt[i]
            prg == S.pid[pmtpid].psi.prg
            hit == {g \in 1..Len(prg) : prg[g].i_pid_pcr = i_pid}
            i_group == IF hit = {} THEN -1
                       ELSE prg[CHOOSE g \in hit : \A h \in hit : h <= g].i_number
            b_pmt_has_es == /\ hit # {}
                            /\ \E j \in PIDS : /\ S.pid[j].b_valid
                                               /\ S.pid[j].p_owner = pmtpid
                                               /\ S.pid[j].es.st = "live"
            S1 == [S EXCEPT !.pid[pmtpid].psi.prg =
                       [g \in 1..Len(prg) |->
                           IF g \in hit THEN [prg[g] EXCEPT !.i_pcr_value = i_pcr]
                           ELSE prg[g]]]
            S2 == IF S.b_trust_pcr /\ i_group > 0 /\ b_pmt_has_es
                  THEN [S1 EXCEPT !.out = Append(@, Ev("GroupPcr", i_group, Stamp(i_pcr)))]
                  ELSE S1
        IN IF i_group < 0 THEN PCRGroupLoop(S2, i_pid, i_pcr, i + 1) ELSE S2)

PCRHandle(S0, i_pid, pk) ==
    Bind(S0, LAMBDA S :
        IF S.i_pmt_es <= 0 THEN S
        ELSE Bind(GetPCR(pk), LAMBDA i_pcr :
                 IF i_pcr[1] < 0 THEN S
                 ELSE PCRGroupLoop(IF S.i_pid_ref_pcr = i_pid
                                   THEN [S EXCEPT !.i_current_pcr =
                                                      AdjustPCRWrapAround(S, i_pcr)]
                                   ELSE S,
                                   i_pid, i_pcr, 1)))

---------------------------------------------------------------------------
(* ParsePES, ParseTableSection and ParseData.  header is the array         *)
(* uint8_t header[34], header[k] of the code being header[k + 1] here; the *)
(* part of it block_ChainExtract does not fill keeps what the stack held,  *)
(* which is the parameter stack.  The formats of PIDFillFormat carry no    *)
(* MPEG-4 descriptor, and none is VLC_CODEC_SUBT, VLC_CODEC_TELETEXT,      *)
(* VLC_CODEC_ARIB_A/C or VLC_CODEC_OPUS, so that i_length stays 0 and the  *)
(* gathered block is sent as it is.                                        *)

\* the five timestamp bytes from header[k] on, without their masks
GetTs_NoMask(header, k) ==
    Add(Shl(header[k + 1], 29),
    Add(Shl(header[k + 2], 22),
    Add(Shl(header[k + 3], 14),
    Add(Shl(header[k + 4], 7), Big(header[k + 5] \div 2)))))

\* the 33-bit timestamp of the five bytes from header[k] on; the five
\* fields lie on disjoint bits, so that | is +
GetTs(header, k) ==
    Add(Shl(BitAnd(header[k + 1], 14), 29),
    Add(Shl(header[k + 2], 22),
    Add(Shl(BitAnd(header[k + 3], 254), 14),
    Add(Shl(header[k + 4], 7), Big(header[k + 5] \div 2)))))

\* while( i_skip < 23 && header[i_skip] == 0xff ) i_skip++
RECURSIVE Mpeg1Stuffing(_, _)
Mpeg1Stuffing(header, i_skip) ==
    IF i_skip < 23 /\ header[i_skip + 1] = 255
    THEN Mpeg1Stuffing(header, i_skip + 1)
    ELSE i_skip

\* the nine fixed bytes alone, without PES_header_data_length
PesHeaderSize_Fixed(header) == 9

\* i_skip of an MPEG-2 PES header
PesHeaderSize(header) == header[9] + 9

\* the switch on header[3]: i_skip, i_pts and i_dts (-1 when absent);
\* b_ok is FALSE on "too much MPEG-1 stuffing"
PesHeader(header) ==
    LET H(k) == header[k + 1]
        none == Big(-1)
    IN IF H(3) \in {188, 190, 191, 240, 241, 255, 242, 248}
       THEN [i_skip |-> 6, i_pts |-> none, i_dts |-> none, b_ok |-> TRUE]
       ELSE IF BitAnd(H(6), 192) = 128
       THEN [i_skip |-> PesHeaderSize(header),
             i_pts |-> IF BitAnd(H(7), 128) # 0 THEN GetTs(header, 9) ELSE none,
             i_dts |-> IF BitAnd(H(7), 128) # 0 /\ BitAnd(H(7), 64) # 0
                       THEN GetTs(header, 14) ELSE none,
             b_ok |-> TRUE]
       ELSE LET s0 == Mpeg1Stuffing(header, 6)
                s1 == IF BitAnd(H(s0), 192) = 64 THEN s0 + 2 ELSE s0
            IN IF s0 = 23
               THEN [i_skip |-> s0, i_pts |-> none, i_dts |-> none, b_ok |-> FALSE]
               ELSE IF BitAnd(H(s1), 32) # 0
               THEN [i_skip |-> IF BitAnd(H(s1), 16) # 0 THEN s1 + 10 ELSE s1 + 5,
                     i_pts |-> GetTs(header, s1),
                     i_dts |-> IF BitAnd(H(s1), 16) # 0 THEN GetTs(header, s1 + 5)
                               ELSE none,
                     b_ok |-> TRUE]
               ELSE [i_skip |-> s1 + 1, i_pts |-> none, i_dts |-> none, b_ok |-> TRUE]

\* the bytes skipped after the PES header for the codec
CodecSkip(codec) ==
    IF codec \in {"a52b", "dtsb"} THEN 4
    ELSE IF codec \in {"lpcb", "spub", "sddb"} THEN 1
    ELSE 0

\* "skip header"
RECURSIVE SkipHeader(_, _)
SkipHeader(p_pes, i_skip) ==
    IF p_pes = <<>> \/ i_skip <= 0 THEN p_pes
    ELSE IF Head(p_pes).i_buffer <= i_skip
    THEN SkipHeader(Tail(p_pes), i_skip - Head(p_pes).i_buffer)
    ELSE <<[Head(p_pes) EXCEPT !.i_buffer = @ - i_skip,
                               !.p_buffer = SubSeq(@, i_skip + 1, Len(@))]>>
         \o Tail(p_pes)

ParsePES(S, i_pid, p_pes, stack) ==
    LET pid == S.pid[i_pid]
        ext == block_ChainExtract(p_pes, 34)
    IN Bind([k \in 1..34 |-> IF k <= Len(ext) THEN ext[k] ELSE stack], LAMBDA header :
       IF pid.b_scrambled THEN S
       ELSE IF header[1] # 0 \/ header[2] # 0 \/ header[3] # 1
       THEN [S EXCEPT !.out = Append(@, Ev("Warn", i_pid, "invalid header"))]
       ELSE
       Bind(PesHeader(header), LAMBDA hd :
       IF ~hd.b_ok
       THEN [S EXCEPT !.out = Append(@, Ev("Err", i_pid, "too much MPEG-1 stuffing"))]
       ELSE
       Bind(SkipHeader(p_pes, hd.i_skip + CodecSkip(pid.es.codec)), LAMBDA rest :
       LET i_dts == IF hd.i_pts[1] >= 0 /\ hd.i_dts[1] < 0 THEN hd.i_pts ELSE hd.i_dts
       IN IF rest = <<>>
          THEN [S EXCEPT !.out = Append(@, Ev("Warn", i_pid, "empty pes"))]
          ELSE
          Bind(block_ChainGather(
                   [rest EXCEPT
                       ![1].i_dts = IF i_dts[1] >= 0 THEN Stamp(i_dts) ELSE @,
                       ![1].i_pts = IF hd.i_pts[1] >= 0 THEN Stamp(hd.i_pts) ELSE @]),
               LAMBDA p_block :
          [S EXCEPT !.out =
              @ \o [k \in 1..Len(pid.extra_es) |-> Ev("SendExtra", i_pid, p_block)]
                \o (IF ~S.b_trust_pcr
                    THEN <<Ev("GroupPcr", pid.i_owner_number, p_block.i_pts)>>
                    ELSE <<>>)
                \o <<Ev("Send", i_pid, p_block)>>]))))

\* the first program of the owner with the PID's program number and a PCR
\* value, or the value of the last one with the number
RECURSIVE SectionDate(_, _, _, _)
SectionDate(prg, i_number, i, i_date) ==
    IF i > Len(prg) THEN i_date
    ELSE IF prg[i].i_number # i_number THEN SectionDate(prg, i_number, i + 1, i_date)
    ELSE IF prg[i].i_pcr_value[1] >= 0 THEN prg[i].i_pcr_value
    ELSE SectionDate(prg, i_number, i + 1, prg[i].i_pcr_value)

\* "extract the truncated pts stored inside the payload" of SCTE-27
Scte27Date(p_content, i_date) ==
    LET B(k) == BlockByte(p_content, k + 1)
        b_segmented == BitAnd(B(3), 64) # 0
        i_index == IF b_segmented THEN BitAnd(B(7), 15) * 256 + B(8) ELSE 0
        i_offset == IF b_segmented THEN 9 ELSE 4
        i_display_in == GetDWBE(p_content, i_offset + 4)
    IN IF /\ p_content.i_buffer > 9 /\ B(0) = 198
          /\ i_index = 0 /\ p_content.i_buffer > i_offset + 8
          /\ BitAnd(B(i_offset + 3), 64) = 0
       THEN IF Lt(i_display_in, i_date) THEN Add(i_display_in, <<4096, 0>>)
            ELSE i_display_in
       ELSE i_date

ParseTableSection(S, i_pid, p_data) ==
    LET pid == S.pid[i_pid]
    IN IF pid.p_owner # -1 /\ S.pid[pid.p_owner].psi.st # "live"
       THEN [S EXCEPT !.crashed = TRUE]
       ELSE
       Bind(block_ChainGather(p_data), LAMBDA p_content :
       Bind(IF pid.p_owner = -1 THEN Big(-1)
            ELSE SectionDate(S.pid[pid.p_owner].psi.prg, pid.i_owner_number, 1, Big(-1)),
            LAMBDA i_date0 :
       Bind(IF i_date0[1] >= 0 /\ pid.es.codec = "scte27"
            THEN Scte27Date(p_content, i_date0) ELSE i_date0,
            LAMBDA i_date :
       [S EXCEPT !.out =
           Append(@, Ev("Send", i_pid,
                        IF i_date[1] >= 0
                        THEN [p_content EXCEPT !.i_dts = Stamp(i_date),
                                               !.i_pts = Stamp(i_date)]
                        ELSE p_content))])))

\* ParseData, were it to leave the sizes of the unit it removes
ParseData_KeepsSizes(S0, i_pid, stack) ==
    Bind(S0, LAMBDA S :
        LET p_data == S.pid[i_pid].es.p_data
            S1 == [S EXCEPT !.pid[i_pid].es.p_data = <<>>]
        IN IF S.pid[i_pid].es.data_type = "pes" THEN ParsePES(S1, i_pid, p_data, stack)
           ELSE IF S.pid[i_pid].es.data_type = "section"
           THEN ParseTableSection(S1, i_pid, p_data)
           ELSE S1)

ParseData(S0, i_pid, stack) ==
    Bind(S0, LAMBDA S :
        LET p_data == S.pid[i_pid].es.p_data
            S1 == [S EXCEPT !.pid[i_pid].es.p_data = <<>>,
                            !.pid[i_pid].es.i_data_size = 0,
                            !.pid[i_pid].es.i_data_gathered = 0]
        IN IF S.pid[i_pid].es.data_type = "pes" THEN ParsePES(S1, i_pid, p_data, stack)
           ELSE IF S.pid[i_pid].es.data_type = "section"
           THEN ParseTableSection(S1, i_pid, p_data)
           ELSE S1)

---------------------------------------------------------------------------
(* GatherData.  The result is [S, i_ret]: the session after the call and   *)
(* the value returned.                                                     *)

\* the test with the duplicate taken for a discontinuity
TestContinuity_NoDuplicates(pid, pk, b_discontinuity) ==
    IF pk.b_payload /\ (pk.i_cc - pid.i_cc) % 16 = 1
    THEN [pid |-> [pid EXCEPT !.i_cc = (@ + 1) % 16], out |-> <<>>]
    ELSE [pid |-> [pid EXCEPT !.i_cc = pk.i_cc,
                              !.es.p_data = Corrupt(@)],
          out |-> <<Ev("Warn", pk.i_pid, "discontinuity received")>>]

\* the test with the buffers of audio and video marked and no other
TestContinuity_MarksAudioVideo(pid, pk, b_discontinuity) ==
    LET i_diff == (pk.i_cc - pid.i_cc) % 16
    IN IF pk.b_payload /\ i_diff = 1
       THEN [pid |-> [pid EXCEPT !.i_cc = (@ + 1) % 16], out |-> <<>>]
       ELSE IF pid.i_cc = 255
       THEN [pid |-> [pid EXCEPT !.i_cc = pk.i_cc],
             out |-> <<Ev("Warn", pk.i_pid, "first packet")>>]
       ELSE IF i_diff # 0 /\ ~b_discontinuity
       THEN [pid |-> [pid EXCEPT !.i_cc = pk.i_cc,
                                 !.es.p_data = IF pid.es.cat \in {"video", "audio"}
                                               THEN Corrupt(@) ELSE @],
             out |-> <<Ev("Warn", pk.i_pid, "discontinuity received")>>]
       ELSE [pid |-> pid, out |-> <<>>]

\* "Test continuity counter": the entry afterwards and the messages
TestContinuity(pid, pk, b_discontinuity) ==
    LET i_diff == (pk.i_cc - pid.i_cc) % 16
    IN IF pk.b_payload /\ i_diff = 1
       THEN [pid |-> [pid EXCEPT !.i_cc = (@ + 1) % 16], out |-> <<>>]
       ELSE IF pid.i_cc = 255
       THEN [pid |-> [pid EXCEPT !.i_cc = pk.i_cc],
             out |-> <<Ev("Warn", pk.i_pid, "first packet")>>]
       ELSE IF i_diff # 0 /\ ~b_discontinuity
       THEN [pid |-> [pid EXCEPT !.i_cc = pk.i_cc,
                                 !.es.p_data = IF pid.es.cat \notin {"video", "audio"}
                                               THEN Corrupt(@) ELSE @],
             out |-> <<Ev("Warn", pk.i_pid, "discontinuity received")>>]
       ELSE [pid |-> pid, out |-> <<>>]

\* the test that ends a unit, were it without i_data_size > 0
GatherFinish_NoSizeTest(S0, i_pid, b_parsed, stack) ==
    Bind(S0, LAMBDA S :
        IF S.pid[i_pid].es.i_data_gathered >= S.pid[i_pid].es.i_data_size
        THEN [S |-> ParseData(S, i_pid, stack), i_ret |-> TRUE]
        ELSE [S |-> S, i_ret |-> b_parsed])

\* the test that ends a unit: the declared size is known and reached
GatherFinish(S0, i_pid, b_parsed, stack) ==
    Bind(S0, LAMBDA S :
        IF /\ S.pid[i_pid].es.i_data_size > 0
           /\ S.pid[i_pid].es.i_data_gathered >= S.pid[i_pid].es.i_data_size
        THEN [S |-> ParseData(S, i_pid, stack), i_ret |-> TRUE]
        ELSE [S |-> S, i_ret |-> b_parsed])

\* if( b_unit_start ) { ... }
GatherStart(S, i_pid, p_bk0, stack) ==
    LET b_section == S.pid[i_pid].es.data_type = "section" /\ p_bk0.i_buffer > 0
        i_pointer_field == Min(BlockByte(p_bk0, 1), p_bk0.i_buffer - 1)
        p == [p_bk0 EXCEPT !.i_buffer = i_pointer_field,
                           !.p_buffer = SubSeq(@, 2, Min(Len(@), 1 + i_pointer_field))]
        p_bk == IF b_section
                THEN [p_bk0 EXCEPT !.i_buffer = @ - (1 + i_pointer_field),
                                   !.p_buffer = SubSeq(@, 2 + i_pointer_field, Len(@))]
                ELSE p_bk0
        S1 == IF b_section THEN [S EXCEPT !.pid[i_pid].es.p_data = Append(@, p)] ELSE S
        b_parsed == S1.pid[i_pid].es.p_data # <<>>
    IN Bind(IF b_parsed THEN ParseData(S1, i_pid, stack) ELSE S1, LAMBDA S2 :
       LET es == S2.pid[i_pid].es
           i_data_size ==
               IF es.data_type = "pes"
               THEN IF p_bk.i_buffer > 6
                    THEN IF GetWBE(p_bk, 4) > 0 THEN GetWBE(p_bk, 4) + 6 ELSE 0
                    ELSE es.i_data_size
               ELSE IF es.data_type = "section"
               THEN IF p_bk.i_buffer > 3 /\ BlockByte(p_bk, 1) # 255
                    THEN 3 + BitAnd(BlockByte(p_bk, 2), 15) * 256 + BlockByte(p_bk, 3)
                    ELSE es.i_data_size
               ELSE es.i_data_size
       IN GatherFinish([S2 EXCEPT !.pid[i_pid].es.p_data = Append(@, p_bk),
                                  !.pid[i_pid].es.i_data_size = i_data_size,
                                  !.pid[i_pid].es.i_data_gathered = @ + p_bk.i_buffer],
                       i_pid, b_parsed, stack))

\* the packets without unit start
GatherNext(S, i_pid, p_bk, stack) ==
    IF S.pid[i_pid].es.p_data = <<>> THEN [S |-> S, i_ret |-> FALSE]
    ELSE GatherFinish([S EXCEPT !.pid[i_pid].es.p_data = Append(@, p_bk),
                                !.pid[i_pid].es.i_data_gathered = @ + p_bk.i_buffer],
                      i_pid, FALSE, stack)

\* GatherDataSkips, were it without the test of the handle
GatherDataSkips_AnyHandle(i_skip, pid) == i_skip >= 188

\* if( i_skip >= 188 || pid->es->id == NULL ): the packet is released
GatherDataSkips(i_skip, pid) == i_skip >= 188 \/ pid.es.id = 0

GatherData(S0, pk0, stack) ==
    Bind(pk0, LAMBDA pk :
    LET i_pid == pk.i_pid
        S == [S0 EXCEPT !.out = <<>>]
        S1 == IF pk.b_tei
              THEN [S EXCEPT !.out = Append(@, Ev("Dbg", i_pid, "transport_error_indicator set")),
                             !.pid[i_pid].es.p_data = Corrupt(@)]
              ELSE S
        i_skip == IF ~pk.b_adaptation THEN 4 ELSE 5 + pk.i_af
        b_discontinuity == pk.b_adaptation /\ pk.i_af > 0 /\ BitAnd(pk.i_af_flags, 128) # 0
        S2 == IF b_discontinuity /\ S1.pid[i_pid].es.p_data # <<>>
              THEN [S1 EXCEPT !.out = Append(@, Ev("Warn", i_pid, "discontinuity indicator"))]
              ELSE S1
        p_bk == [p_buffer |-> pk.data, i_buffer |-> TS_PACKET_SIZE_188 - i_skip,
                 i_flags |-> FALSE, i_pts |-> Big(0), i_dts |-> Big(0)]
    IN Bind(TestContinuity(S2.pid[i_pid], pk, b_discontinuity), LAMBDA tc :
       Bind(PCRHandle([S2 EXCEPT !.pid[i_pid] = tc.pid, !.out = @ \o tc.out], i_pid, pk),
            LAMBDA S4 :
       LET pid == S4.pid[i_pid]
           S5 == IF pid.b_scrambled # pk.b_scrambled
                 THEN [S4 EXCEPT !.pid[i_pid].b_scrambled = pk.b_scrambled,
                                 !.out = @ \o <<Ev("Warn", i_pid, "scrambled state changed")>>
                                           \o [k \in 1..Len(pid.extra_es) |->
                                                  Ev("ScrambledExtra", i_pid, pk.b_scrambled)]
                                           \o <<Ev("Scrambled", i_pid, pk.b_scrambled)>>]
                 ELSE S4
       IN IF GatherDataSkips(i_skip, pid) THEN [S |-> S4, i_ret |-> FALSE]
          ELSE Bind(S5, LAMBDA S6 :
                   IF pk.b_unit_start THEN GatherStart(S6, i_pid, p_bk, stack)
                   ELSE GatherNext(S6, i_pid, p_bk, stack)))))

---------------------------------------------------------------------------
(* PES reassembly: a session with one program whose PMT declares one       *)
(* stream on PID 48, fed the packets of well-formed PES one after the      *)
(* other, counters consecutive.  A PES is [sid, i_len, size, flags, hdl,   *)
(* t]: stream id, PES_packet_length, bytes in all, the flags of header[7], *)
(* PES_header_data_length and the PTS.  op records the PES being sent, the *)
(* bytes of it sent so far (off), the payload bytes of its first packet    *)
(* (n1), the PES before it when that one was still being gathered (prev),  *)
(* and how many PES were begun.                                            *)

\* the stream types of the sessions: MPEG-2 video, 'a52b' audio, 'spub'
GatherTypes == {2, 145, 146}

GatherSession(i_type) ==
    [PMTCallBack(PATCallBack(OpenSys(TRUE),
                             [i_version |-> 0, b_current_next |-> TRUE,
                              programs |-> <<[i_number |-> 1, i_pid |-> 32]>>]),
                 [i_program_number |-> 1, i_version |-> 0, b_current_next |-> TRUE,
                  i_pcr_pid |-> 48,
                  es |-> <<[i_pid |-> 48, i_type |-> i_type, lang |-> ""]>>])
     EXCEPT !.out = <<>>]

\* the five bytes of the 33-bit timestamp t behind the 4-bit prefix, marker
\* bits set (ISO/IEC 13818-1 2.4.3.7)
EncodeTs(prefix, t) ==
    <<prefix * 16 + (t[1] \div 1024) * 2 + 1,
      (t[1] \div 4) % 256,
      ((t[1] % 4) * 32 + t[2] \div 32768) * 2 + 1,
      (t[2] \div 128) % 256,
      (t[2] % 128) * 2 + 1>>

Pes(size, flags, hdl, t) ==
    [sid |-> 224, i_len |-> size - 6, size |-> size, flags |-> flags, hdl |-> hdl, t |-> t]

NoPes == Pes(0, 0, 0, Big(0))

\* the header of a PES: start code, stream id, length, '10' flags, flags,
\* header data length, the PTS when flagged, stuffing
PesBytes(pes) ==
    LET b_pts == BitAnd(pes.flags, 128) # 0
    IN <<0, 0, 1, pes.sid, pes.i_len \div 256, pes.i_len % 256, 128, pes.flags, pes.hdl>>
       \o (IF b_pts THEN EncodeTs(2, pes.t) ELSE <<>>)
       \o [k \in 1..(pes.hdl - (IF b_pts THEN 5 ELSE 0)) |-> 255]

\* a packet of PID 48 with n bytes after the header and the adaptation field
TsPacket(i_cc, b_unit_start, b_tei, i_af_flags, n, data) ==
    [i_pid |-> 48, b_tei |-> b_tei, b_unit_start |-> b_unit_start,
     b_scrambled |-> FALSE, b_adaptation |-> n < 184, b_payload |-> n > 0,
     i_cc |-> i_cc, i_af |-> IF n < 184 THEN 183 - n ELSE 0,
     i_af_flags |-> i_af_flags, pcr |-> <<0, 0, 0, 0, 0>>, data |-> data]

\* the packet with the n bytes of the PES from offset off on
PesPacket(pes, off, n, i_cc) ==
    TsPacket(i_cc, off = 0, FALSE, 0, n,
             SubSeq(PesBytes(pes), off + 1, Min(off + n, Len(PesBytes(pes)))))

MaxPes == 2

\* sizes: a header and nothing else, 1 and 4 bytes behind it, three packets
\* the last of which holds 3 bytes, three packets
PesSizes == {14, 15, 18, 371, 400}

PtsValues == {Big(0), Big(1), Big(90000), <<1023, Base - 1>>, <<4096, 0>>,
              <<5461, 349525>>, PCR_WRAP}

PesSet == {Pes(400, 128, 5, t) : t \in PtsValues}
          \cup {Pes(size, 128, 5, Big(90000)) : size \in PesSizes}
          \cup {Pes(400, 0, 0, Big(0)), Pes(400, 128, 7, Big(90000))}

\* the payload bytes of a first packet: too few to hold the length field,
\* just enough, all the packet can take
FirstSizes(pes) == {6, 7, Min(184, pes.size)}

\* what the stack may hold where header[] is not filled
StackBytes == {0, 255}

PesInit ==
    /\ sys \in {GatherSession(i_type) : i_type \in GatherTypes}
    /\ op = [name |-> "Open", pes |-> NoPes, off |-> 0, n1 |-> 0, prev |-> NoPes,
             count |-> 0]

PesFirst ==
    \E pes \in PesSet : \E n \in FirstSizes(pes) : \E stack \in StackBytes :
        /\ op.off = op.pes.size
        /\ op.count < MaxPes
        /\ sys' = GatherData(sys, PesPacket(pes, 0, n, (sys.pid[48].i_cc + 1) % 16),
                             stack).S
        /\ op' = [name |-> "Packet", pes |-> pes, off |-> n, n1 |-> n,
                  prev |-> IF sys.pid[48].es.p_data # <<>> THEN op.pes ELSE NoPes,
                  count |-> op.count + 1]

PesNext ==
    \E stack \in StackBytes :
        /\ op.off < op.pes.size
        /\ LET n == Min(184, op.pes.size - op.off)
           IN /\ sys' = GatherData(sys, PesPacket(op.pes, op.off, n,
                                                  (sys.pid[48].i_cc + 1) % 16),
                                   stack).S
              /\ op' = [op EXCEPT !.off = @ + n]

PesStep == PesFirst \/ PesNext

SpecPes == PesInit /\ [][PesStep]_vars

\* the blocks the last packet made GatherData send to the stream of PID 48
Sent == SelectSeq(sys.out, LAMBDA e : e.ev = "Send")

\* the bytes 'a52b' and 'spub' streams carry between PES header and data
SubHeaderBytes(codec) == IF codec = "a52b" THEN 4 ELSE IF codec = "spub" THEN 1 ELSE 0

\* what is left of a PES behind its header of 9 + hdl bytes and the sub-header
PesPayload(pes) == pes.i_len + 6 - (9 + pes.hdl) - SubHeaderBytes(sys.pid[48].es.codec)

\* the packet handled last began a PES while the one before was still gathered
PrevFlushed == op.name = "Packet" /\ op.off = op.n1 /\ op.prev # NoPes

\* the blocks sent for the PES being sent, the flushed one set aside
Own == IF PrevFlushed /\ PesPayload(op.prev) > 0 THEN Tail(Sent) ELSE Sent

\* the PES the k-th block sent belongs to
BlockPes(k) == IF PrevFlushed /\ PesPayload(op.prev) > 0 /\ k = 1 THEN op.prev ELSE op.pes

C9_PtsDecodedAndStamped ==
    /\ (op.name = "Packet" /\ op.pes.flags = 128) =>
           /\ GetTs(PesBytes(op.pes), 9) = op.pes.t
           /\ PesHeader(PesBytes(op.pes) \o [k \in 1..20 |-> 0]).i_dts = Big(-1)
    /\ \A k \in 1..Len(Sent) :
           BlockPes(k).flags = 128 =>
               /\ Sent[k].b.i_pts = Add(Big(1), DivN(MulN(BlockPes(k).t, 100), 9))
               /\ Sent[k].b.i_dts = Sent[k].b.i_pts

\* C9, witness: the block of a PES whose PTS is 2^33 - 1, stamped
\* 1 + (2^33 - 1) * 100 / 9 = 95443717678 = 91022 * 2^20 + 233006
C9_Witness ==
    /\ op.name = "Packet" /\ op.pes.flags = 128 /\ op.pes.t = PCR_WRAP
    /\ Len(Sent) = 1
    /\ Sent[1].b.i_pts = <<91022, 233006>>
    /\ Sent[1].b.i_dts = <<91022, 233006>>

---------------------------------------------------------------------------
(* Units that carry more than they declare: the sessions of MPEG-2 video,  *)
(* 'a52b' audio and SCTE-27 subtitles (whose units are table sections) fed *)
(* units of PID 48 in packets of up to 184 bytes, counters consecutive.  A *)
(* unit is a PES record whose i_len is the length it declares and whose    *)
(* size is the number of payload bytes its packets carry; sections carry a *)
(* pointer_field of 0, table_id 0xC6 and i_len as section_length.  op      *)
(* records the unit, the bytes of it handed over so far (off), the bytes   *)
(* of the last packet (n) and how many units were begun.                   *)

OverTypes == {2, 145, 130}

MaxUnits == 2

OverUnit(i_len, size) == [Pes(size, 128, 5, Big(90000)) EXCEPT !.i_len = i_len]

\* declared lengths that end in the first, second and third packet, each
\* with the sizes that reach them
OverUnits ==
    {OverUnit(i_len, size) : i_len \in {94}, size \in {100, 200, 400}}
    \cup {OverUnit(i_len, size) : i_len \in {194}, size \in {200, 400}}
    \cup {OverUnit(394, 400)}

\* the bytes a unit begins with: pointer_field, table_id, section_length
SectionBytes(unit) == <<0, 198, unit.i_len \div 256, unit.i_len % 256>>

UnitBytes(S, unit) ==
    IF S.pid[48].es.data_type = "section" THEN SectionBytes(unit) ELSE PesBytes(unit)

UnitPacket(S, unit, off, n) ==
    TsPacket((S.pid[48].i_cc + 1) % 16, off = 0, FALSE, 0, n,
             SubSeq(UnitBytes(S, unit), off + 1, Min(off + n, Len(UnitBytes(S, unit)))))

OverInit ==
    /\ sys \in {GatherSession(i_type) : i_type \in OverTypes}
    /\ op = [name |-> "Open", unit |-> NoPes, off |-> 0, n |-> 0, count |-> 0]

OverFirst ==
    \E unit \in OverUnits : \E stack \in StackBytes :
        /\ op.off = op.unit.size
        /\ op.count < MaxUnits
        /\ LET n == Min(184, unit.size)
           IN /\ sys' = GatherData(sys, UnitPacket(sys, unit, 0, n), stack).S
              /\ op' = [name |-> "Packet", unit |-> unit, off |-> n, n |-> n,
                        count |-> op.count + 1]

OverNext ==
    \E stack \in StackBytes :
        /\ op.off < op.unit.size
        /\ LET n == Min(184, op.unit.size - op.off)
           IN /\ sys' = GatherData(sys, UnitPacket(sys, op.unit, op.off, n), stack).S
              /\ op' = [op EXCEPT !.off = @ + n, !.n = n]

OverStep == OverFirst \/ OverNext

SpecOver == OverInit /\ [][OverStep]_vars

\* i_data_size of the unit and i_data_gathered with its last packet
DeclaredSize ==
    IF sys.pid[48].es.data_type = "section" THEN 3 + op.unit.i_len ELSE 6 + op.unit.i_len

Gathered == IF sys.pid[48].es.data_type = "section" THEN op.off - 1 ELSE op.off

\* the packet handled last brought the bytes gathered beyond the declared
\* size
Overflowed ==
    /\ op.name = "Packet"
    /\ Gathered > DeclaredSize
    /\ Gathered - op.n < DeclaredSize

(* C20.  When the packet handled brings the bytes gathered for a PES or a  *)
(* table section beyond the length the unit declares, the buffer is        *)
(* released and nothing is sent to the output for the unit.                *)
C20_OverflowIsReleasedNotSent ==
    Overflowed => (Sent = <<>> /\ sys.pid[48].es.p_data = <<>>)

---------------------------------------------------------------------------
(* PES that declare no length: the sessions of the PES reassembly fed PES  *)
(* whose PES_packet_length is 0, each in a first packet of 6, 14 or 184    *)
(* bytes and up to MaxCont packets of 184 bytes, counters consecutive.  op *)
(* records the bytes of the PES handed over so far (off), the bytes of the *)
(* PES before it that were gathered when its first packet came (prev) and  *)
(* how many PES were begun.                                                *)

MaxCont == 3

MaxUnbounded == 3

UnboundedPes == [Pes(0, 128, 5, Big(90000)) EXCEPT !.i_len = 0]

UnbInit ==
    /\ sys \in {GatherSession(i_type) : i_type \in GatherTypes}
    /\ op = [name |-> "Open", off |-> 0, prev |-> 0, count |-> 0]

\* a packet with the unit-start flag
UnbStart ==
    \E n \in {6, 14, 184} : \E stack \in StackBytes :
        /\ op.count < MaxUnbounded
        /\ sys' = GatherData(sys, PesPacket(UnboundedPes, 0, n,
                                            (sys.pid[48].i_cc + 1) % 16), stack).S
        /\ op' = [name |-> "Start", off |-> n, prev |-> op.off, count |-> op.count + 1]

\* a packet without
UnbCont ==
    \E stack \in StackBytes :
        /\ op.name # "Open"
        /\ op.off < 14 + MaxCont * 184
        /\ sys' = GatherData(sys, PesPacket(UnboundedPes, op.off, 184,
                                            (sys.pid[48].i_cc + 1) % 16), stack).S
        /\ op' = [op EXCEPT !.name = "Cont", !.off = @ + 184]

UnbNext == UnbStart \/ UnbCont

SpecUnbounded == UnbInit /\ [][UnbNext]_vars

\* what is left of n gathered bytes behind the PES header of 14 bytes and
\* the sub-header
UnbPayload(n) == n - 14 - SubHeaderBytes(sys.pid[48].es.codec)

---------------------------------------------------------------------------
(* Continuity: the same sessions fed packets of PID 48 in any order of     *)
(* counters.  A packet repeats the stored counter, follows it or skips one *)
(* (i_delta); it carries 184 bytes, or 182 bytes behind an adaptation      *)
(* field with the discontinuity indicator, or an adaptation field and no   *)
(* payload (form); unit-start packets begin a PES of 400 bytes.  op        *)
(* records the packet and, from before it was handled, the stored counter, *)
(* the number of blocks gathered and whether they were marked corrupted.   *)

CcDeltas == {0, 1, 2}

PacketForms == {"payload", "discontinuity", "adaptation only"}

CcPes == Pes(400, 128, 5, Big(90000))

CcPacketOf(i_cc, b_unit_start, b_tei, form) ==
    LET n == IF form = "payload" THEN 184 ELSE IF form = "discontinuity" THEN 182 ELSE 0
    IN TsPacket(i_cc, b_unit_start, b_tei, IF form = "discontinuity" THEN 128 ELSE 0, n,
                IF b_unit_start /\ n > 0 THEN PesBytes(CcPes) ELSE <<>>)

\* the packets offered: the transport error indicator and the unit start
\* on packets of 184 bytes only
CcKinds == {k \in [i_delta : CcDeltas, b_unit_start : BOOLEAN, b_tei : BOOLEAN,
                   form : PacketForms] :
               k.form # "payload" => ~k.b_tei /\ ~k.b_unit_start}

\* the first counter sent, and how far the stored counter may move from it
\* before the stream ends: the counters pass from 15 to 0
FirstCc == 14

MaxCcSteps == 4

CcInit ==
    /\ sys \in {GatherSession(i_type) : i_type \in GatherTypes}
    /\ op = [name |-> "Open", pk |-> CcPacketOf(0, FALSE, FALSE, "payload"),
             pre |-> [i_cc |-> 255, n |-> 0, corrupted |-> FALSE]]

CcPacket ==
    \E k \in CcKinds : \E stack \in StackBytes :
        LET pid == sys.pid[48]
            pk == CcPacketOf((IF pid.i_cc = 255 THEN FirstCc + k.i_delta
                              ELSE pid.i_cc + k.i_delta) % 16,
                             k.b_unit_start, k.b_tei, k.form)
        IN /\ pid.i_cc = 255 \/ (pid.i_cc - FirstCc) % 16 < MaxCcSteps
           /\ sys' = GatherData(sys, pk, stack).S
           /\ op' = [name |-> "Packet", pk |-> pk,
                     pre |-> [i_cc |-> pid.i_cc, n |-> Len(pid.es.p_data),
                              corrupted |-> pid.es.p_data # <<>>
                                            /\ pid.es.p_data[1].i_flags]]

CcNext == CcPacket

SpecCc == CcInit /\ [][CcNext]_vars

\* the continuity errors the last packet raised
CcErrors == Count(sys.out, LAMBDA e : e.ev = "Warn" /\ e.b = "discontinuity received")

\* the packet carries the discontinuity indicator
Indicator(pk) == pk.b_adaptation /\ pk.i_af > 0 /\ BitAnd(pk.i_af_flags, 128) # 0

\* the buffer that was in flight before the packet is marked corrupted now:
\* it is the block sent if the packet ended it, the chain gathered if not
InFlightMarked ==
    IF Sent # <<>> THEN Sent[1].b.i_flags
    ELSE sys.pid[48].es.p_data # <<>> /\ sys.pid[48].es.p_data[1].i_flags

\* the buffer that was in flight was sent or is still gathered
InFlightKept ==
    \/ Sent # <<>>
    \/ ~op.pk.b_unit_start /\ Len(sys.pid[48].es.p_data) >= op.pre.n

\* a payload-bearing packet without discontinuity indicator on a seeded PID
\* whose counter is neither the stored one nor the next
CcMismatch ==
    /\ op.name = "Packet" /\ op.pre.i_cc # 255
    /\ op.pk.b_payload /\ ~Indicator(op.pk)
    /\ (op.pk.i_cc - op.pre.i_cc) % 16 \notin {0, 1}

CcSectionInit ==
    /\ sys \in {GatherSession(i_type) : i_type \in GatherTypes \cup {130}}
    /\ op = [name |-> "Open", pk |-> CcPacketOf(0, FALSE, FALSE, "payload"),
             pre |-> [i_cc |-> 255, n |-> 0, corrupted |-> FALSE]]

SpecCcSection == CcSectionInit /\ [][CcNext]_vars

\* a mismatch met a clean buffer in flight, on a packet without transport
\* error indicator
CleanMismatch == CcMismatch /\ op.pre.n > 0 /\ ~op.pre.corrupted /\ ~op.pk.b_tei

C24_UnitStartDeliversIffGathering ==
    (op.name = "Packet" /\ op.pk.b_unit_start) =>
        /\ Sent # <<>> <=> op.pre.n > 0
        /\ Len(sys.pid[48].es.p_data) = 1

\* a packet with payload that repeats the counter stored on a seeded PID
CcDuplicate ==
    /\ op.name = "Packet" /\ op.pre.i_cc # 255
    /\ op.pk.b_payload /\ op.pk.i_cc = op.pre.i_cc

(* C5.  A duplicate yields no continuity error and no other message of the *)
(* counter test, leaves the stored counter as it was, and does not mark    *)
(* the buffer in flight: the buffer is marked afterwards only if it was    *)
(* marked before or the packet has the transport error indicator, which    *)
(* marks the buffer whatever the counter.                                  *)
C5_DuplicateIsNoError ==
    CcDuplicate =>
        /\ CcErrors = 0
        /\ Count(sys.out, LAMBDA e : e.ev = "Warn" /\ e.b = "first packet") = 0
        /\ sys.pid[48].i_cc = op.pre.i_cc
        /\ (op.pre.n > 0 /\ InFlightMarked) => (op.pre.corrupted \/ op.pk.b_tei)

\* C5, witness: a duplicate on the subtitle stream, where a mismatch would
\* mark the buffer; the buffer stays clean and the payload is gathered again
C5_Witness ==
    /\ CcDuplicate /\ ~op.pk.b_tei /\ ~op.pk.b_unit_start
    /\ op.pre.n > 0 /\ ~op.pre.corrupted
    /\ sys.pid[48].es.cat = "spu"
    /\ CcErrors = 0 /\ ~InFlightMarked
    /\ Len(sys.pid[48].es.p_data) = op.pre.n + 1

---------------------------------------------------------------------------
(* A program updated while its stream is gathered: the same sessions, fed  *)
(* packets of PID 48 with consecutive counters and PMTs of program 1 that  *)
(* declare PID 48 again, with a stream type and a language of their own.   *)
(* op records, besides the packet, the stream entry the PMT declared,      *)
(* whether the version test let the PMT pass, and from before the handler  *)
(* the entry of PID 48 and the count of registered streams.                *)

\* MPEG-1 and MPEG-2 video (one codec), private sections (no codec),
\* 'a52b' audio
ReuseTypes == {1, 2, 5, 145}

ReuseLangs == {"", "eng"}

ReusePmts == [i_program_number : {1}, i_version : Versions, b_current_next : {TRUE},
              i_pcr_pid : {48},
              es : {<<[i_pid |-> 48, i_type |-> t, lang |-> l]>> :
                       t \in ReuseTypes, l \in ReuseLangs}]

\* packets of a session between two updates
MaxReusePackets == 2

ReuseRan(name, pk, p_es, b_accept, count, S) ==
    [name |-> name, pk |-> pk, p_es |-> p_es, b_accept |-> b_accept, count |-> count,
     pre |-> [pid |-> S.pid[48], i_pmt_es |-> S.i_pmt_es]]

ReuseInit ==
    /\ sys \in {GatherSession(i_type) : i_type \in GatherTypes}
    /\ op = ReuseRan("Open", CcPacketOf(0, FALSE, FALSE, "payload"),
                     [i_pid |-> 48, i_type |-> 0, lang |-> ""], FALSE, 0, sys)

ReusePacket ==
    \E b_unit_start \in BOOLEAN : \E stack \in StackBytes :
        LET pid == sys.pid[48]
            pk == CcPacketOf(IF pid.i_cc = 255 THEN FirstCc ELSE (pid.i_cc + 1) % 16,
                             b_unit_start, FALSE, "payload")
        IN /\ op.count < MaxReusePackets
           /\ sys' = GatherData(sys, pk, stack).S
           /\ op' = ReuseRan("Packet", pk, op.p_es, FALSE, op.count + 1, sys)

ReusePMT ==
    \E p_pmt \in ReusePmts :
        /\ sys' = PMTCallBack(sys, p_pmt)
        /\ op' = ReuseRan("PMT", op.pk, p_pmt.es[1],
                          ~PMTDiscards(sys.pid[32].psi.prg[1], p_pmt), 0, sys)

ReuseNext == ReusePacket \/ ReusePMT

SpecReuse == ReuseInit /\ [][ReuseNext]_vars

\* an accepted PMT declared PID 48 again
Redeclared == op.name = "PMT" /\ op.b_accept /\ op.pre.pid.b_valid

\* what the new declaration makes of the stream
NewFormat == PIDFillFormat(op.p_es.i_type)

NewLang == IF NewFormat.cat \in {"audio", "spu"} THEN op.p_es.lang ELSE ""

\* same codec and same language (the model has no extra data and no extra
\* sub-streams)
SameStream ==
    /\ NewFormat.codec = op.pre.pid.es.codec
    /\ NewLang = op.pre.pid.es.lang

\* the es_out_Add and es_out_Del calls of the last handler for PID 48
SinkAdds == Count(sys.out, LAMBDA e : e.ev = "Add" /\ e.a = 48)

SinkDels == Count(sys.out, LAMBDA e : e.ev = "Del" /\ e.a = 48)

\* handle, counter and gathered blocks are those from before
CarriedOver ==
    /\ sys.pid[48].es = op.pre.pid.es
    /\ sys.pid[48].i_cc = op.pre.pid.i_cc
    /\ SinkAdds = 0 /\ SinkDels = 0
    /\ sys.i_pmt_es = op.pre.i_pmt_es

---------------------------------------------------------------------------
(* The stream and the PCR probes of Open.  A stream is [n, step, p0,       *)
(* every, jump, blank]: n packets of 188 bytes, all of PID 48 and in sync  *)
(* (0x47), of which packet idx carries, when idx is a multiple of every    *)
(* and not one of the last blank packets, an adaptation field with the PCR *)
(* p0 + step * idx, plus jump from the middle of the stream on; the stream *)
(* has no PSI.                                                             *)
(* The session is demux_sys_t with the stream under it (field stream) and  *)
(* i_pos for stream_Tell; offsets are multiples of the packet size         *)
(* wherever ReadTSPacket is called.  msg_Dbg output is left out.           *)
(* b_alive is what vlc_object_alive answers during the call at hand, and   *)
(* i_seek_fail the number of stream_Seek calls that succeed before one     *)
(* fails (-1: none fails); a stream_Seek that fails leaves the offset.     *)
(* i_alive is the number of times the loop of a probe of Open finds the    *)
(* object alive before the object is killed (-1: it is not killed); from   *)
(* then on b_alive is false.                                               *)

\* C's a % b for b > 0
CRem(a, b) == IF a >= 0 THEN a % b ELSE -((-a) % b)

\* <<a / b, a % b>> for 0 <= a and 0 < b, by long division
RECURSIVE DivLoop(_, _)
DivLoop(a, b) ==
    IF Lt(a, b) THEN <<Big(0), a>>
    ELSE Bind(DivLoop(a, MulN(b, 2)), LAMBDA r :
             IF Le(b, r[2]) THEN <<Add(MulN(r[1], 2), Big(1)), Sub(r[2], b)>>
             ELSE <<MulN(r[1], 2), r[2]>>)

DivBig(a, b) == DivLoop(a, b)[1]

\* the bytes p[6] .. p[10] of an adaptation field carrying the PCR t
EncodePcr(t) ==
    <<t[1] \div 32,
      (t[1] % 32) * 8 + t[2] \div 131072,
      (t[2] \div 512) % 256,
      (t[2] \div 2) % 256,
      (t[2] % 2) * 128 + 126>>

\* the packet at index idx of the stream s
StreamPacket(s, idx) ==
    IF idx % s.every = 0 /\ idx < s.n - s.blank
    THEN [TsPacket(idx % 16, FALSE, FALSE, 16, 176, <<>>)
              EXCEPT !.pcr = EncodePcr(Add(s.p0,
                                           Big(idx * s.step
                                               + (IF 2 * idx >= s.n THEN s.jump
                                                  ELSE 0))))]
    ELSE TsPacket(idx % 16, FALSE, FALSE, 0, 184, <<>>)

\* the NULL of stream_Block at the end of the stream
NoPacket == [TsPacket(0, FALSE, FALSE, 0, 184, <<>>) EXCEPT !.i_pid = -1]

stream_Size(S) == S.stream.n * TS_PACKET_SIZE_188

\* [S, p_pkt]
ReadTSPacket(S) ==
    IF S.i_pos + TS_PACKET_SIZE_188 > stream_Size(S)
    THEN [S |-> S, p_pkt |-> NoPacket]
    ELSE [S |-> [S EXCEPT !.i_pos = @ + TS_PACKET_SIZE_188],
          p_pkt |-> StreamPacket(S.stream, S.i_pos \div TS_PACKET_SIZE_188)]

\* [S, b_err], b_err for a return value other than 0
stream_Seek(S, i_pos) ==
    IF S.i_seek_fail = 0
    THEN [S |-> [S EXCEPT !.i_seek_fail = -1], b_err |-> TRUE]
    ELSE [S |-> [S EXCEPT !.i_pos = i_pos,
                          !.i_seek_fail = IF @ > 0 THEN @ - 1 ELSE @],
          b_err |-> FALSE]

\* vlc_object_alive in the loop condition of a probe: [S, b]
vlc_object_alive(S) ==
    IF ~S.b_alive \/ S.i_alive = 0
    THEN [S |-> [S EXCEPT !.b_alive = FALSE, !.i_alive = -1], b |-> FALSE]
    ELSE [S |-> [S EXCEPT !.i_alive = IF @ > 0 THEN @ - 1 ELSE @], b |-> TRUE]

\* one turn of the while loop of SeekToPCR on st = [S, i_pcr, b_loop]
SeekToPCRStep(st, i_last_pos) ==
    Bind(ReadTSPacket(st.S), LAMBDA r :
        IF r.p_pkt.i_pid = -1 THEN [S |-> r.S, i_pcr |-> Big(-1), b_loop |-> FALSE]
        ELSE Bind(IF r.p_pkt.i_pid = r.S.i_pid_ref_pcr THEN GetPCR(r.p_pkt)
                  ELSE Big(-1), LAMBDA i_pcr :
                 [S |-> r.S, i_pcr |-> i_pcr,
                  b_loop |-> ~(i_pcr[1] >= 0 \/ r.S.i_pos >= i_last_pos)]))

\* the while loop of SeekToPCR: [S, i_pcr, b_loop] when it ends.  A turn
\* changes nothing but the offset, so the loop ends with the turn on the
\* first packet, from the offset on, whose turn ends it.
SeekToPCRLoop(S0, i_last_pos) ==
    IF ~S0.b_alive THEN [S |-> S0, i_pcr |-> Big(-1), b_loop |-> FALSE]
    ELSE
    LET Turn(k) == SeekToPCRStep([S |-> [S0 EXCEPT !.i_pos = k * TS_PACKET_SIZE_188],
                                  i_pcr |-> Big(-1), b_loop |-> TRUE], i_last_pos)
        i_first == S0.i_pos \div TS_PACKET_SIZE_188
    IN Turn(CHOOSE k \in i_first..S0.stream.n :
                /\ ~Turn(k).b_loop
                /\ \A j \in i_first..(k - 1) : Turn(j).b_loop)

\* [S, b_ok], b_ok for VLC_SUCCESS
SeekToPCR(S0, i_pos0) ==
    Bind(<<S0, i_pos0>>, LAMBDA a :
        IF a[2] < 0 THEN [S |-> a[1], b_ok |-> FALSE]
        ELSE LET i_last_pos == stream_Size(a[1]) - TS_PACKET_SIZE_188
             IN Bind(stream_Seek(a[1], Min(a[2], i_last_pos)), LAMBDA k :
                    IF k.b_err THEN [S |-> k.S, b_ok |-> FALSE]
                    ELSE
                    Bind(SeekToPCRLoop(k.S, i_last_pos), LAMBDA r :
                    IF r.i_pcr[1] < 0
                    THEN [S |-> stream_Seek(r.S, a[1].i_pos).S, b_ok |-> FALSE]
                    ELSE [S |-> [r.S EXCEPT !.i_current_pcr = r.i_pcr],
                          b_ok |-> TRUE])))

\* the while loop of GetFirstPCR
RECURSIVE GetFirstPCRLoop(_)
GetFirstPCRLoop(S0) ==
    Bind(vlc_object_alive(S0), LAMBDA a :
        IF ~a.b THEN a.S
        ELSE
        Bind(ReadTSPacket(a.S), LAMBDA r :
            IF r.p_pkt.i_pid = -1 THEN r.S
            ELSE Bind(GetPCR(r.p_pkt), LAMBDA i_pcr :
                 Bind(IF i_pcr[1] >= 0
                      THEN [r.S EXCEPT !.i_pid_ref_pcr = r.p_pkt.i_pid,
                                       !.i_first_pcr = i_pcr,
                                       !.i_current_pcr = i_pcr]
                      ELSE r.S, LAMBDA S :
                     IF S.i_first_pcr[1] >= 0 THEN S ELSE GetFirstPCRLoop(S)))))

\* GetFirstPCR, were it to return where its loop ends
GetFirstPCR_NoSeekBack(S0) ==
    Bind(stream_Seek(S0, 0), LAMBDA k :
        IF k.b_err THEN k.S ELSE GetFirstPCRLoop(k.S))

GetFirstPCR(S0) ==
    Bind(S0, LAMBDA S :
        Bind(stream_Seek(S, 0), LAMBDA k :
            IF k.b_err THEN k.S
            ELSE stream_Seek(GetFirstPCRLoop(k.S), S.i_pos).S))

\* the for loop of CheckPCR from i on: [S, i] when it ends
RECURSIVE CheckPCRLoop(_, _)
CheckPCRLoop(S0, i) ==
    IF i >= S0.i_pcrs_num THEN [S |-> S0, i |-> i]
    ELSE
    Bind(vlc_object_alive(S0), LAMBDA a :
        IF ~a.b THEN [S |-> a.S, i |-> i]
        ELSE LET i_pos == (stream_Size(a.S) \div a.S.i_pcrs_num) * i
             IN Bind(SeekToPCR(a.S, i_pos - (i_pos % TS_PACKET_SIZE_188)), LAMBDA r :
                    IF ~r.b_ok THEN [S |-> r.S, i |-> i]
                    ELSE CheckPCRLoop([r.S EXCEPT !.p_pcrs[i + 1] = r.S.i_current_pcr,
                                                  !.p_pos[i + 1] = r.S.i_pos],
                                      i + 1)))

CheckPCR(S0) ==
    Bind(S0, LAMBDA S :
        Bind(CheckPCRLoop([S EXCEPT !.p_pcrs[1] = S.i_first_pcr,
                                    !.p_pos[1] = S.i_pos], 1), LAMBDA r :
            [stream_Seek([r.S EXCEPT !.b_force_seek_per_percent =
                                         @ \/ r.i < S.i_pcrs_num],
                         S.i_pos).S
                EXCEPT !.i_current_pcr = S.i_current_pcr]))

\* GetLastPCR: i_last_pos - p_sys->i_packet_size * 4500
LastPcrPackets == 4500

TS_SUPPOSED_MAXRATE == MulN(MulN(Big(55), 1000), 1000)

TS_SUPPOSED_MINRATE == Big(500000)

\* one turn of the while loop of GetLastPCR on st = [S, i_pos, b_loop]
GetLastPCRStep(st, i_last_pos) ==
    Bind(vlc_object_alive(st.S), LAMBDA a :
        IF ~a.b THEN [S |-> a.S, i_pos |-> st.i_pos, b_loop |-> FALSE]
        ELSE
        Bind(SeekToPCR(a.S, st.i_pos), LAMBDA r :
            IF ~r.b_ok THEN [S |-> r.S, i_pos |-> st.i_pos, b_loop |-> FALSE]
            ELSE [S |-> [r.S EXCEPT !.i_last_pcr =
                                        AdjustPCRWrapAround(r.S, r.S.i_current_pcr)],
                  i_pos |-> r.S.i_pos,
                  b_loop |-> r.S.i_pos < i_last_pos]))

\* the while loop runs as two halves of two halves ..., LoopDepth deep:
\* 2^LoopDepth turns, which is enough for the LastPcrPackets + 1 packets it
\* may have to read
LoopDepth == 13

RECURSIVE GetLastPCRLoop(_, _, _)
GetLastPCRLoop(st0, i_last_pos, level) ==
    Bind(st0, LAMBDA st :
        IF ~st.b_loop THEN st
        ELSE IF level = 0 THEN GetLastPCRStep(st, i_last_pos)
        ELSE GetLastPCRLoop(GetLastPCRLoop(st, i_last_pos, level - 1),
                            i_last_pos, level - 1))

\* the plausibility test of the bitrate
GetLastPCRRate(S) ==
    IF S.i_last_pcr[1] < 0 THEN S
    ELSE Bind(DivN(DivN(MulN(Sub(S.i_last_pcr, S.i_first_pcr), 100), 9), 1000),
              LAMBDA i_duration_msec :
         Bind(IF ~Lt(Big(0), i_duration_msec) THEN Big(0)
              ELSE DivBig(MulN(MulN(Big(stream_Size(S)), 1000), 8), i_duration_msec),
              LAMBDA i_rate :
             IF Lt(i_rate, TS_SUPPOSED_MINRATE) \/ Lt(TS_SUPPOSED_MAXRATE, i_rate)
             THEN [S EXCEPT !.i_last_pcr = Big(-1)]
             ELSE S))

GetLastPCR(S0) ==
    Bind(S0, LAMBDA S :
        LET i_stream_size == stream_Size(S)
            i_last_pos == i_stream_size - TS_PACKET_SIZE_188
            i_pos0 == i_last_pos - TS_PACKET_SIZE_188 * LastPcrPackets
            i_pos1 == i_pos0 - CRem(i_pos0, TS_PACKET_SIZE_188)
            i_pos == IF i_pos1 <= S.i_pos /\ i_pos1 >= i_stream_size
                     THEN S.i_pos + TS_PACKET_SIZE_188 ELSE i_pos1
        IN IF i_pos < 0 /\ i_pos >= i_stream_size THEN S
           ELSE Bind(GetLastPCRLoop([S |-> S, i_pos |-> i_pos, b_loop |-> TRUE],
                                    i_last_pos, LoopDepth), LAMBDA st :
                    [stream_Seek(GetLastPCRRate(st.S), S.i_pos).S
                        EXCEPT !.i_current_pcr = S.i_current_pcr]))

\* Open, were it to leave b_force_seek_per_percent to the option and to
\* CheckPCR
Open_FlagNotForced(S0) ==
    Bind(IF S0.b_fastseek THEN GetLastPCR(CheckPCR(GetFirstPCR(S0))) ELSE S0,
         LAMBDA S :
        [S EXCEPT !.pid[48].b_seen = TRUE,
                  !.i_pos = stream_Size(S)])

\* Open from the test of STREAM_CAN_FASTSEEK on (b_fastseek is the answer):
\* the three probes, then Demux until a PMT has registered a stream or the
\* stream ends.  On a stream without PSI every packet is of an unknown
\* PID, PCRHandle returns at i_pmt_es <= 0, and the loop ends at the end of
\* the stream.
Open(S0) ==
    Bind(IF S0.b_fastseek THEN GetLastPCR(CheckPCR(GetFirstPCR(S0))) ELSE S0,
         LAMBDA S :
        [S EXCEPT !.b_force_seek_per_percent =
                      @ \/ S.i_first_pcr[1] < 0 \/ S.i_last_pcr[1] < 0,
                  !.pid[48].b_seen = TRUE,
                  !.i_pos = stream_Size(S)])

---------------------------------------------------------------------------
(* Seek and Control( DEMUX_SET_POSITION ).  The double f_percent is        *)
(* f8 / 8, which a double holds exactly, as it does the products and sums  *)
(* of i_target_pcr; Control calls Seek with 0 <= i_first_pcr < i_last_pcr, *)
(* so the conversion to mtime_t rounds the product down.                   *)

TargetPcr(S, f8) ==
    Add(DivN(MulN(Sub(S.i_last_pcr, S.i_first_pcr), f8), 8), S.i_first_pcr)

\* the for loop over the samples: the i it ends on
RECURSIVE SeekBracket(_, _, _, _)
SeekBracket(S, i_target_pcr, i, i_adjust0) ==
    IF i >= S.i_pcrs_num THEN i
    ELSE Bind(IF Lt(S.p_pcrs[i + 1], S.p_pcrs[i]) THEN Add(i_adjust0, PCR_WRAP)
              ELSE i_adjust0, LAMBDA i_adjust :
             IF Lt(i_target_pcr, Add(S.p_pcrs[i + 1], i_adjust)) THEN i
             ELSE SeekBracket(S, i_target_pcr, i + 1, i_adjust))

\* (i_current_pcr - i_target_pcr) * 100 / 9 / 1000
DiffMsec(i_current_pcr, i_target_pcr) ==
    DivN(DivN(MulN(Sub(i_current_pcr, i_target_pcr), 100), 9), 1000)

\* the while loop: [S, b_found] when it ends
RECURSIVE SeekLoop(_, _, _, _)
SeekLoop(S0, i_target_pcr, i_head_pos0, i_tail_pos0) ==
    Bind(<<S0, i_head_pos0, i_tail_pos0>>, LAMBDA a :
        LET S == a[1]
            i_head_pos == a[2]
            i_tail_pos == a[3]
            i_mid == i_head_pos + (i_tail_pos - i_head_pos) \div 2
        IN IF i_head_pos > i_tail_pos THEN [S |-> S, b_found |-> FALSE]
           ELSE
           Bind(i_mid - (i_mid % TS_PACKET_SIZE_188), LAMBDA i_pos :
           Bind(SeekToPCR(S, i_pos), LAMBDA r :
               IF ~r.b_ok THEN [S |-> r.S, b_found |-> FALSE]
               ELSE
               Bind([r.S EXCEPT !.i_current_pcr = AdjustPCRWrapAround(r.S, @)],
                    LAMBDA S1 :
               Bind(DiffMsec(S1.i_current_pcr, i_target_pcr), LAMBDA i_diff_msec :
                   IF Lt(Big(500), i_diff_msec)
                   THEN SeekLoop(S1, i_target_pcr, i_head_pos,
                                 i_pos - TS_PACKET_SIZE_188)
                   ELSE IF Lt(i_diff_msec, Big(-500))
                   THEN SeekLoop(S1, i_target_pcr, i_pos + TS_PACKET_SIZE_188,
                                 i_tail_pos)
                   ELSE [S |-> S1, b_found |-> TRUE])))))

\* [S, b_ok], b_ok for VLC_SUCCESS
Seek(S0, f8) ==
    Bind(S0, LAMBDA S :
    Bind(TargetPcr(S, f8), LAMBDA i_target_pcr :
    Bind(SeekBracket(S, i_target_pcr, 1, Big(0)), LAMBDA i :
    Bind(SeekLoop(S, i_target_pcr, S.p_pos[i],
                  IF i < S.i_pcrs_num THEN S.p_pos[i + 1] ELSE stream_Size(S)),
         LAMBDA r :
        IF ~r.b_found
        THEN [S |-> [stream_Seek(r.S, S.i_pos).S
                         EXCEPT !.i_current_pcr = S.i_current_pcr],
              b_ok |-> FALSE]
        ELSE [S |-> r.S, b_ok |-> TRUE]))))

\* the test of DEMUX_SET_POSITION: the offset is sought, not the PCR
SeekPerPercent(S) ==
    \/ S.b_force_seek_per_percent
    \/ (S.b_dvb_meta /\ S.b_access_control)
    \/ ~Lt(Big(0), Sub(S.i_last_pcr, S.i_first_pcr))

\* ControlSetPosition, were a failed Seek to leave the flag alone
ControlSetPosition_FlagLeft(S0, f8) ==
    Bind(S0, LAMBDA S :
        IF SeekPerPercent(S)
        THEN Bind(stream_Seek(S, (stream_Size(S) * f8) \div 8), LAMBDA k :
                 [S |-> k.S, b_ok |-> ~k.b_err])
        ELSE Seek(S, f8))

\* Control( DEMUX_SET_POSITION, f8 / 8 ): [S, b_ok]
ControlSetPosition(S0, f8) ==
    Bind(S0, LAMBDA S :
        IF SeekPerPercent(S)
        THEN Bind(stream_Seek(S, (stream_Size(S) * f8) \div 8), LAMBDA k :
                 [S |-> k.S, b_ok |-> ~k.b_err])
        ELSE Bind(Seek(S, f8), LAMBDA r :
                 IF r.b_ok THEN r
                 ELSE [S |-> [r.S EXCEPT !.b_force_seek_per_percent = TRUE],
                       b_ok |-> FALSE]))

\* DVBEventInformation: dvb = [b_ok, i_time, i_length] is what the running
\* event of the EIT and the clock give; b_ok for VLC_SUCCESS, on which the
\* length is positive, and 0 for both on VLC_EGENERIC
DVBEventInformation(dvb) ==
    IF dvb.b_ok THEN dvb ELSE [b_ok |-> FALSE, i_time |-> 0, i_length |-> 0]

\* Control( DEMUX_GET_POSITION ): *pf as <<numerator, denominator>> and the
\* branch that wrote it
ControlGetPosition(S, dvb) ==
    IF \/ S.b_force_seek_per_percent
       \/ (S.b_dvb_meta /\ S.b_access_control)
       \/ Lt(Sub(S.i_current_pcr, S.i_first_pcr), Big(0))
       \/ ~Lt(Big(0), Sub(S.i_last_pcr, S.i_first_pcr))
    THEN LET ev == DVBEventInformation(dvb)
         IN IF ev.b_ok /\ ev.i_length > 0
            THEN [pf |-> <<Big(ev.i_time), Big(ev.i_length)>>, from |-> "event"]
            ELSE IF stream_Size(S) > 0
            THEN [pf |-> <<Big(S.i_pos), Big(stream_Size(S))>>, from |-> "offset"]
            ELSE [pf |-> <<Big(0), Big(1)>>, from |-> "zero"]
    ELSE [pf |-> <<Sub(S.i_current_pcr, S.i_first_pcr),
                   Sub(S.i_last_pcr, S.i_first_pcr)>>, from |-> "pcr"]

\* Control( DEMUX_GET_TIME ): *pi64 and the branch that wrote it
ControlGetTime(S, dvb) ==
    IF \/ (S.b_dvb_meta /\ S.b_access_control)
       \/ S.b_force_seek_per_percent
       \/ Lt(Sub(S.i_current_pcr, S.i_first_pcr), Big(0))
    THEN LET ev == DVBEventInformation(dvb)
         IN IF ~ev.b_ok THEN [pi64 |-> Big(0), from |-> "zero"]
            ELSE [pi64 |-> Big(ev.i_time), from |-> "event"]
    ELSE [pi64 |-> DivN(MulN(Sub(S.i_current_pcr, S.i_first_pcr), 100), 9),
          from |-> "pcr"]

\* Control( DEMUX_GET_LENGTH ): *pi64 and the branch that wrote it
ControlGetLength(S, dvb) ==
    IF \/ (S.b_dvb_meta /\ S.b_access_control)
       \/ S.b_force_seek_per_percent
       \/ ~Lt(Big(0), Sub(S.i_last_pcr, S.i_first_pcr))
    THEN LET ev == DVBEventInformation(dvb)
         IN IF ~ev.b_ok THEN [pi64 |-> Big(0), from |-> "zero"]
            ELSE [pi64 |-> Big(ev.i_length), from |-> "event"]
    ELSE [pi64 |-> DivN(MulN(Sub(S.i_last_pcr, S.i_first_pcr), 100), 9),
          from |-> "pcr"]

---------------------------------------------------------------------------
(* Seeking: a file is opened and positions are set, with the demuxer      *)
(* alive or not and with or without a stream_Seek error during the call.   *)
(* op holds the fraction asked for, what Control returned, whether Seek    *)
(* was called, and the flag b_force_seek_per_percent, the offset and the   *)
(* current PCR the call met.                                               *)

\* the streams: one too short for GetLastPCR, two long enough; PCR steps
\* per packet from 45 Mbit/s down to one under the supposed minimum rate
StreamPackets == {40, 4502, 4510}

StreamSteps == {3, 201, 270, 300}

StreamFirstPcrs == {Big(0), Big(90000)}

StreamEvery == {1, 2}

\* the PCR grows with the offset and is there to the end
LinearStreams == [n : StreamPackets, step : StreamSteps, p0 : StreamFirstPcrs,
                  every : StreamEvery, jump : {0}, blank : {0}]

\* a stream whose PCR leaps 5 s in the middle, and one whose last 230
\* packets carry no PCR
BrokenStreams == {[n |-> 4510, step |-> 90, p0 |-> Big(0), every |-> 1,
                   jump |-> 450000, blank |-> 0],
                  [n |-> 4510, step |-> 201, p0 |-> Big(0), every |-> 1,
                   jump |-> 0, blank |-> 230]}

Streams == LinearStreams \cup BrokenStreams

\* f_percent in eighths
Eighths == {1, 4, 7, 8}

\* what the call meets: nothing, a cancellation, a stream_Seek error at the
\* first or at the second call of stream_Seek
SeekEnvs == <<[b_alive |-> TRUE, i_seek_fail |-> -1],
              [b_alive |-> FALSE, i_seek_fail |-> -1],
              [b_alive |-> TRUE, i_seek_fail |-> 0],
              [b_alive |-> TRUE, i_seek_fail |-> 1]>>

\* the session at the PCR part of Open: "ts-seek-percent" off, a file
\* access (no PID filter) that can seek fast
SeekSession(s) ==
    [f \in DOMAIN OpenSys(FALSE)
            \cup {"stream", "b_fastseek", "b_alive", "i_alive", "i_seek_fail"} |->
        IF f = "stream" THEN s
        ELSE IF f = "b_fastseek" THEN TRUE
        ELSE IF f = "b_alive" THEN TRUE
        ELSE IF f = "i_alive" THEN -1
        ELSE IF f = "i_seek_fail" THEN -1
        ELSE IF f = "b_force_seek_per_percent" THEN FALSE
        ELSE OpenSys(FALSE)[f]]

SeekInit ==
    /\ sys \in {SeekSession(s) : s \in Streams}
    /\ op = [name |-> "Module", f8 |-> 0, b_ok |-> TRUE, b_force |-> FALSE,
             b_seek |-> FALSE, env |-> SeekEnvs[1],
             i_pos |-> 0, i_pcr |-> Big(-1)]

SeekOpen ==
    /\ op.name = "Module"
    /\ sys' = Open(sys)
    /\ op' = [name |-> "Open", f8 |-> 0, b_ok |-> TRUE, b_force |-> FALSE,
              b_seek |-> FALSE, env |-> SeekEnvs[1],
              i_pos |-> sys.i_pos, i_pcr |-> sys.i_current_pcr]

SeekSetPosition ==
    \E f8 \in Eighths, e \in 1..Len(SeekEnvs) :
        /\ op.name # "Module"
        /\ LET r == ControlSetPosition([sys EXCEPT !.b_alive = SeekEnvs[e].b_alive,
                                                    !.i_seek_fail = SeekEnvs[e].i_seek_fail],
                                       f8)
           IN /\ sys' = [r.S EXCEPT !.b_alive = TRUE, !.i_seek_fail = -1]
              /\ op' = [name |-> "SetPosition", f8 |-> f8, b_ok |-> r.b_ok,
                        b_force |-> sys.b_force_seek_per_percent,
                        b_seek |-> ~SeekPerPercent(sys), env |-> SeekEnvs[e],
                        i_pos |-> sys.i_pos, i_pcr |-> sys.i_current_pcr]

SeekNext == SeekOpen \/ SeekSetPosition

SpecSeek == SeekInit /\ [][SeekNext]_vars

\* the position was set by Seek (not by offset) to f8 eighths
SoughtByPcr(f8) ==
    /\ op.name = "SetPosition"
    /\ op.f8 = f8
    /\ op.b_seek
    /\ op.env = SeekEnvs[1]

\* Seek ends within its own tolerance of the target: the difference in
\* whole milliseconds, rounded towards zero, is at most 500
SeekWithinTruncatedTolerance ==
    \A f8 \in Eighths :
        (SoughtByPcr(f8) /\ op.b_ok)
        => LET d == DiffMsec(sys.i_current_pcr, TargetPcr(sys, f8))
           IN Le(Big(-500), d) /\ Le(d, Big(500))

\* twice the distance in 90 kHz ticks of the current PCR from
\* i_first_pcr + 0.5 * (i_last_pcr - i_first_pcr)
TwiceMidDistance(S) ==
    LET d == Sub(Sub(MulN(S.i_current_pcr, 2), MulN(S.i_first_pcr, 2)),
                 Sub(S.i_last_pcr, S.i_first_pcr))
    IN IF d[1] < 0 THEN Sub(Big(0), d) ELSE d

\* C10 as stated: on a linear stream with the PCR in every packet and the
\* sample table built, Seek(0.5) succeeds and leaves i_current_pcr within
\* 500 ms (45000 ticks of 90 kHz) of i_first_pcr + 0.5 * (i_last_pcr -
\* i_first_pcr).
C10_SeekHalfWithin500ms ==
    (SoughtByPcr(4) /\ sys.stream \in LinearStreams /\ sys.stream.every = 1)
    => (op.b_ok /\ Le(TwiceMidDistance(sys), Big(2 * 45000)))

\* Seek was called and failed
SeekFailed == op.name = "SetPosition" /\ op.b_seek /\ ~op.b_ok

---------------------------------------------------------------------------
(* UserPmt.  The option string is the sequence of its characters.  strtol  *)
(* is called with base 0; the strings of the model hold decimal numbers    *)
(* without sign, blank or leading zero.  NULL is the index 0 for strchr.   *)
(* es_format_t.i_group and i_id are not part of the model's entries.       *)

DigitOf(c) ==
    CASE c = "0" -> 0 [] c = "1" -> 1 [] c = "2" -> 2 [] c = "3" -> 3
      [] c = "4" -> 4 [] c = "5" -> 5 [] c = "6" -> 6 [] c = "7" -> 7
      [] c = "8" -> 8 [] c = "9" -> 9 [] OTHER -> -1

\* strtol( psz, &psz, 0 ): <<value, rest>>
RECURSIVE StrtolLoop(_, _)
StrtolLoop(psz, acc) ==
    IF psz # <<>> /\ DigitOf(Head(psz)) >= 0
    THEN StrtolLoop(Tail(psz), acc * 10 + DigitOf(Head(psz)))
    ELSE <<acc, psz>>

Strtol(psz) == StrtolLoop(psz, 0)

\* strchr( psz, c ): the index of the first c, 0 for NULL
Strchr(psz, c) ==
    IF \E k \in 1..Len(psz) : psz[k] = c
    THEN CHOOSE k \in 1..Len(psz) : psz[k] = c /\ \A j \in 1..(k - 1) : psz[j] # c
    ELSE 0

\* the ts_prg_psi_t UserPmt allocates with calloc
UserPrg(i_number) ==
    [i_version |-> -1, i_number |-> i_number, i_pid_pcr |-> -1, i_pid_pmt |-> -1,
     i_pcr_value |-> Big(0)]

\* the format of an entry "category=fourcc" or "stream_type"
UserPmtFormat(psz_opt, psz_arg, b_arg) ==
    IF b_arg /\ Len(psz_arg) = 4
    THEN [cat |-> IF psz_opt = <<"v", "i", "d", "e", "o">> THEN "video"
                  ELSE IF psz_opt = <<"a", "u", "d", "i", "o">> THEN "audio"
                  ELSE IF psz_opt = <<"s", "p", "u">> THEN "spu"
                  ELSE "unknown",
          codec |-> psz_arg[1] \o psz_arg[2] \o psz_arg[3] \o psz_arg[4]]
    ELSE PIDFillFormat(Strtol(psz_opt)[1])

\* one turn of the while loop, on the entry item (the text up to the next
\* ','); the program is the last one of the PMT PID's list
UserPmtEs(S0, i_pmt, item) ==
    Bind(<<S0, Strtol(item)>>, LAMBDA a :
        LET S == a[1]
            i_pid == a[2][1]
            psz == a[2][2]
            n == Len(S.pid[i_pmt].psi.prg)
        IN IF psz = <<>> \/ Head(psz) # ":" \/ i_pid < 2 \/ i_pid >= 8192 THEN S
           ELSE IF Tail(psz) = <<"p", "c", "r">>
           THEN [S EXCEPT !.pid[i_pmt].psi.prg[n].i_pid_pcr = i_pid]
           ELSE IF S.pid[i_pid].b_valid THEN S
           ELSE
           LET i_arg == Strchr(Tail(psz), "=")
               psz_opt == IF i_arg = 0 THEN Tail(psz)
                          ELSE SubSeq(Tail(psz), 1, i_arg - 1)
               psz_arg == IF i_arg = 0 THEN <<>>
                          ELSE SubSeq(Tail(psz), i_arg + 1, Len(Tail(psz)))
               fmt == UserPmtFormat(psz_opt, psz_arg, i_arg # 0)
               b_add == fmt.cat # "unknown"
           IN [S EXCEPT !.pid[i_pid] =
                            [PIDInit(@, FALSE, i_pmt) EXCEPT
                                 !.es.cat = fmt.cat,
                                 !.es.codec = fmt.codec,
                                 !.es.id = IF b_add THEN 1 ELSE 0],
                        !.pid[i_pmt].psi.prg[n].i_pid_pcr = IF @ <= 0 THEN i_pid ELSE @,
                        !.out = IF b_add THEN Append(@, Ev("Add", i_pid, 0)) ELSE @,
                        !.i_pmt_es = IF b_add THEN @ + 1 ELSE @])

\* the while loop over the entries behind '='
RECURSIVE UserPmtLoop(_, _, _)
UserPmtLoop(S0, i_pmt, psz) ==
    Bind(S0, LAMBDA S :
        IF psz = <<>> THEN S
        ELSE LET i_next == Strchr(psz, ",")
             IN IF i_next = 0 THEN UserPmtEs(S, i_pmt, psz)
                ELSE UserPmtLoop(UserPmtEs(S, i_pmt, SubSeq(psz, 1, i_next - 1)),
                                 i_pmt, SubSeq(psz, i_next + 1, Len(psz))))

\* [S, b_ok], b_ok for VLC_SUCCESS
UserPmt(S0, psz_fmt) ==
    Bind(<<S0, Strtol(psz_fmt)>>, LAMBDA a :
        LET S == a[1]
            i_pid == a[2][1]
            b_number == a[2][2] # <<>> /\ Head(a[2][2]) = ":"
            r == IF b_number THEN Strtol(Tail(a[2][2])) ELSE <<0, a[2][2]>>
            i_number == r[1]
            i_eq == Strchr(r[2], "=")
        IN IF i_pid < 2 \/ i_pid >= 8192 THEN [S |-> S, b_ok |-> FALSE]
           ELSE Bind([S EXCEPT !.pid[i_pid] =
                                   [PIDInit(@, TRUE, -1) EXCEPT
                                        !.psi.prg = Append(@, UserPrg(i_number))]],
                     LAMBDA S1 :
                    [S |-> [UserPmtLoop(S1, i_pid,
                                        IF i_eq = 0 THEN <<>>
                                        ELSE SubSeq(r[2], i_eq + 1, Len(r[2])))
                                EXCEPT !.b_user_pmt = TRUE,
                                       !.pmt = Append(@, i_pid)],
                     b_ok |-> TRUE]))

---------------------------------------------------------------------------
(* A session opened with "ts-extra-pmt" set, and the tables delivered to   *)
(* it afterwards.                                                          *)

\* the string of the manual-override example: "100:5=200:video,201:audio"
UserPmtClaimed == <<"1", "0", "0", ":", "5", "=", "2", "0", "0", ":", "v", "i", "d", "e", "o", ",", "2", "0", "1", ":", "a", "u", "d", "i", "o">>

\* categories with a codec: "100:5=200:video=mpgv,201:audio=mpga"
UserPmtFourcc == <<"1", "0", "0", ":", "5", "=", "2", "0", "0", ":", "v", "i", "d", "e", "o", "=", "m", "p", "g", "v", ",", "2", "0", "1", ":", "a", "u", "d", "i", "o", "=", "m", "p", "g", "a">>

\* stream types, no program number: "100=200:2,201:3"
UserPmtTypes == <<"1", "0", "0", "=", "2", "0", "0", ":", "2", ",", "2", "0", "1", ":", "3">>

\* a PCR PID, and a PID named twice: "32:1=49:pcr,48:2,48:3"
UserPmtPcr == <<"3", "2", ":", "1", "=", "4", "9", ":", "p", "c", "r", ",", "4", "8", ":", "2", ",", "4", "8", ":", "3">>

\* a PMT PID below 2: "1:5=200:2"
UserPmtBadPid == <<"1", ":", "5", "=", "2", "0", "0", ":", "2">>

\* the padding PID as a stream: "100:5=8191:video=mpgv"
UserPmtPadding == <<"1", "0", "0", ":", "5", "=", "8", "1", "9", "1", ":", "v", "i", "d", "e", "o", "=", "m", "p", "g", "v">>

\* the padding PID as the PMT PID: "8191:2=48:2"
UserPmtOnPadding == <<"8", "1", "9", "1", ":", "2", "=", "4", "8", ":", "2">>

\* a codec of two characters, an entry without ':': "100:5=200:video=mp,201"
UserPmtShortArg == <<"1", "0", "0", ":", "5", "=", "2", "0", "0", ":", "v", "i", "d", "e", "o", "=", "m", "p", ",", "2", "0", "1">>

UserPmtStrings == {UserPmtClaimed, UserPmtFourcc, UserPmtTypes, UserPmtPcr, UserPmtBadPid, UserPmtPadding, UserPmtOnPadding, UserPmtShortArg}

\* what the PMT decoders of the user programs deliver
UserPmtStreams == {<<[i_pid |-> 200, i_type |-> 2, lang |-> ""]>>,
                   <<[i_pid |-> 48, i_type |-> 2, lang |-> ""],
                     [i_pid |-> 8191, i_type |-> 3, lang |-> ""]>>}

UserPmtTables == [i_program_number : {1, 2, 5}, i_version : Versions,
                  b_current_next : {TRUE}, i_pcr_pid : {200}, es : UserPmtStreams]

\* op: the handler that ran last, the option string, whether UserPmt
\* succeeded, whether the handler left a trace
UserInit ==
    /\ sys \in {OpenSys(b) : b \in BOOLEAN}
    /\ op = [name |-> "Module", psz |-> <<>>, b_ok |-> FALSE, changed |-> FALSE]

\* Open with ts-extra-pmt = psz
UserOpen ==
    \E psz \in UserPmtStrings :
        /\ op.name = "Module"
        /\ LET r == UserPmt([sys EXCEPT !.out = <<>>], psz)
           IN /\ sys' = r.S
              /\ op' = [name |-> "Open", psz |-> psz, b_ok |-> r.b_ok,
                        changed |-> Changed(sys, r.S)]

UserPAT ==
    \E p_pat \in PatTables :
        /\ op.name # "Module"
        /\ ~sys.crashed
        /\ sys' = PATCallBack(sys, p_pat)
        /\ op' = [name |-> "PAT", psz |-> op.psz, b_ok |-> op.b_ok,
                 changed |-> Changed(sys, sys')]

UserPMT ==
    \E p_pmt \in UserPmtTables :
        /\ op.name # "Module"
        /\ ~sys.crashed
        /\ sys' = PMTCallBack(sys, p_pmt)
        /\ op' = [name |-> "PMT", psz |-> op.psz, b_ok |-> op.b_ok,
                 changed |-> Changed(sys, sys')]

UserNext == UserOpen \/ UserPAT \/ UserPMT

SpecUser == UserInit /\ [][UserNext]_vars

\* C11 as stated: Open with "100:5=200:video,201:audio" creates a user
\* program numbered 5 on PMT PID 100 and registers PID 200 as video and PID
\* 201 as audio with the output at once, the count of registered streams
\* being 2 before any table is read.
C11_UserPmtRegistersTwoStreams ==
    (op.name = "Open" /\ op.psz = UserPmtClaimed)
    => /\ sys.b_user_pmt
       /\ sys.pmt = <<100>>
       /\ sys.pid[100].b_valid /\ sys.pid[100].psi.st = "live"
       /\ sys.pid[100].psi.prg[1].i_number = 5
       /\ sys.pid[200].b_valid /\ sys.pid[200].es.cat = "video"
       /\ sys.pid[201].b_valid /\ sys.pid[201].es.cat = "audio"
       /\ sys.pid[200].es.id # 0 /\ sys.pid[201].es.id # 0
       /\ sys.out = <<Ev("Add", 200, 0), Ev("Add", 201, 0)>>
       /\ sys.i_pmt_es = 2

\* with the codec given ("200:video=mpgv,201:audio=mpga") the two streams
\* are registered at Open
UserPmtWithCodecRegisters ==
    (op.name = "Open" /\ op.psz = UserPmtFourcc)
    => /\ sys.pid[200].es.cat = "video" /\ sys.pid[200].es.codec = "mpgv"
       /\ sys.pid[201].es.cat = "audio" /\ sys.pid[201].es.codec = "mpga"
       /\ sys.out = <<Ev("Add", 200, 0), Ev("Add", 201, 0)>>
       /\ sys.i_pmt_es = 2

\* C18 as stated: whatever PAT, PMT or user PMT is delivered, the entry of
\* PID 8191 is neither a valid PSI entry nor a valid elementary-stream
\* entry (so that Demux hands none of its packets on).
C18_PaddingIsNeverValid ==
    /\ ~sys.pid[8191].b_valid
    /\ sys.pid[8191].psi.st # "live"
    /\ sys.pid[8191].es.st # "live"

---------------------------------------------------------------------------
(* DetectPacketSize.  The head of the stream is [size, lead, n, sync,      *)
(* stray, fill, b_topfield]: lead bytes, then n packets of size bytes each *)
(* beginning with the byte sync; every packet has the byte 0x47 again at   *)
(* the offset stray (none for -1) and the byte fill elsewhere; the lead is *)
(* fill, or begins with "TFrc" when b_topfield.                            *)

TS_PACKET_SIZE_192 == 192

TS_PACKET_SIZE_204 == 204

TS_PACKET_SIZE_MAX == 204

\* "TFrc"
TopfieldMagic == <<84, 70, 114, 99>>

HeadLength(st) == st.lead + st.n * st.size

\* the byte at offset i of the stream, i below HeadLength
HeadByte(st, i) ==
    IF i < st.lead
    THEN IF st.b_topfield /\ i < 4 THEN TopfieldMagic[i + 1] ELSE st.fill
    ELSE LET k == (i - st.lead) % st.size
         IN IF k = 0 THEN st.sync ELSE IF k = st.stray THEN 71 ELSE st.fill

\* what stream_Peek returns for a request of i_peek bytes
stream_Peek(st, i_peek) == Min(i_peek, HeadLength(st))

\* the three sync bytes behind the candidate at i_sync, i_size apart
NextSyncs(st, i_sync, i_size) ==
    \A k \in 1..3 : HeadByte(st, i_sync + k * i_size) = 71

\* the for loop returns in the turn i_sync
DetectReturns(st, i_sync) ==
    /\ HeadByte(st, i_sync) = 71
    /\ \/ stream_Peek(st, TS_PACKET_SIZE_MAX * 3 + i_sync + 1)
              < TS_PACKET_SIZE_MAX * 3 + i_sync + 1
       \/ NextSyncs(st, i_sync, TS_PACKET_SIZE_188)
       \/ NextSyncs(st, i_sync, TS_PACKET_SIZE_192)
       \/ NextSyncs(st, i_sync, TS_PACKET_SIZE_204)

\* the header size reported with 192: 4 for a candidate at any offset
DetectHeaderSize_AnyOffset(i_sync) == 4

\* the header size reported with 192
DetectHeaderSize(i_sync) == IF i_sync = 4 THEN 4 ELSE 0

\* [i_ret, i_header_size]; the caller's variable holds 0 before the call
DetectPacketSize(st, b_force) ==
    IF stream_Peek(st, TS_PACKET_SIZE_MAX) < TS_PACKET_SIZE_MAX
    THEN [i_ret |-> -1, i_header_size |-> 0]
    ELSE IF \A k \in 1..4 : HeadByte(st, k - 1) = TopfieldMagic[k]
    THEN [i_ret |-> TS_PACKET_SIZE_188, i_header_size |-> 0]
    ELSE IF \E i \in 0..(TS_PACKET_SIZE_MAX - 1) : DetectReturns(st, i)
    THEN LET i_sync == CHOOSE i \in 0..(TS_PACKET_SIZE_MAX - 1) :
                           /\ DetectReturns(st, i)
                           /\ \A j \in 0..(i - 1) : ~DetectReturns(st, j)
         IN IF stream_Peek(st, TS_PACKET_SIZE_MAX * 3 + i_sync + 1)
                   < TS_PACKET_SIZE_MAX * 3 + i_sync + 1
            THEN [i_ret |-> -1, i_header_size |-> 0]
            ELSE IF NextSyncs(st, i_sync, TS_PACKET_SIZE_188)
            THEN [i_ret |-> TS_PACKET_SIZE_188, i_header_size |-> 0]
            ELSE IF NextSyncs(st, i_sync, TS_PACKET_SIZE_192)
            THEN [i_ret |-> TS_PACKET_SIZE_192,
                  i_header_size |-> DetectHeaderSize(i_sync)]
            ELSE [i_ret |-> TS_PACKET_SIZE_204, i_header_size |-> 0]
    ELSE [i_ret |-> IF b_force THEN TS_PACKET_SIZE_188 ELSE -1, i_header_size |-> 0]

---------------------------------------------------------------------------
(* Open on the head of a stream: the packet size is detected.              *)

PacketSizes == {TS_PACKET_SIZE_188, TS_PACKET_SIZE_192, TS_PACKET_SIZE_204}

\* streams of packets: with the sync byte or without (noise), three to
\* five packets (one more for every byte of lead), clean or with a second
\* 0x47 in every packet
Heads == [size : PacketSizes, lead : {0, 1, 4, 5}, n : {1, 3, 4, 5},
          sync : {71, 0}, stray : {-1, 4, 188}, fill : {0, 255},
          b_topfield : {FALSE}]
         \cup [size : PacketSizes, lead : {4}, n : {4}, sync : {71},
               stray : {-1}, fill : {0}, b_topfield : {TRUE}]

DetectInit ==
    /\ sys \in [stream : Heads, i_packet_size : {0}, i_packet_header_size : {0}]
    /\ op = [name |-> "Module", b_force |-> FALSE]

\* Open up to the packet size: -1 makes Open fail
DetectOpen ==
    \E b_force \in BOOLEAN :
        /\ op.name = "Module"
        /\ LET r == DetectPacketSize(sys.stream, b_force)
           IN sys' = [sys EXCEPT !.i_packet_size = r.i_ret,
                                 !.i_packet_header_size = r.i_header_size]
        /\ op' = [name |-> "Open", b_force |-> b_force]

DetectNext == DetectOpen

SpecDetect == DetectInit /\ [][DetectNext]_vars

\* the stream of the claim: at least 4 packets beginning with 0x47, the
\* first at offset 0 or behind 4 bytes, and 0x47 nowhere else
CleanHead(st) ==
    /\ st.n >= 4
    /\ st.sync = 71
    /\ st.lead \in {0, 4}
    /\ st.stray = -1
    /\ ~st.b_topfield

\* C12, amended: on at least 4 packets of size S in {188, 192, 204} whose
\* first sync byte is at offset 0 or 4, with no other byte 0x47 and not
\* beginning with "TFrc", DetectPacketSize returns S, and reports the
\* header size 4 exactly when S is 192 and the first sync byte is at offset
\* 4; the header size is 0 for 188 and 204 whatever the offset.
C12_SizeDetectedHeaderOnlyFor192 ==
    (op.name = "Open" /\ CleanHead(sys.stream))
    => /\ sys.i_packet_size = sys.stream.size
       /\ (sys.i_packet_header_size = 4)
              <=> (sys.stream.size = TS_PACKET_SIZE_192 /\ sys.stream.lead = 4)
       /\ sys.i_packet_header_size \in {0, 4}

\* C12 witness: four packets of 192 bytes behind a lead of 4 bytes are
\* detected as 192 with a header of 4
C12_Witness ==
    /\ op.name = "Open"
    /\ CleanHead(sys.stream)
    /\ sys.stream.size = TS_PACKET_SIZE_192
    /\ sys.stream.lead = 4
    /\ sys.stream.n = 4
    /\ sys.i_packet_size = TS_PACKET_SIZE_192
    /\ sys.i_packet_header_size = 4

\* C12 as stated: DetectPacketSize returns S and reports the header size 4
\* exactly when the first sync byte is at offset 4.
C12_HeaderWheneverSyncAtFour ==
    (op.name = "Open" /\ CleanHead(sys.stream))
    => /\ sys.i_packet_size = sys.stream.size
       /\ (sys.i_packet_header_size = 4) <=> (sys.stream.lead = 4)

\* the stream holds 0x47 at offset i and three more times i_size apart
RunAt(st, i, i_size) ==
    \A k \in 0..3 : /\ i + k * i_size < HeadLength(st)
                    /\ HeadByte(st, i + k * i_size) = 71

\* no offset 0..203 begins such a run at a stride of 188, 192 or 204
NoRun(st) ==
    \A i \in 0..(TS_PACKET_SIZE_MAX - 1) : \A i_size \in PacketSizes : ~RunAt(st, i, i_size)

\* C21: when no offset 0..203 begins a run of four sync bytes at a stride
\* of 188, 192 or 204, DetectPacketSize returns 188 in forced-open mode and
\* fails otherwise; in forced-open mode it does not fail, whatever the
\* content and the length of the stream.
C21_ForcedOpenNeverFails ==
    op.name = "Open" =>
        /\ NoRun(sys.stream) =>
               sys.i_packet_size = IF op.b_force THEN TS_PACKET_SIZE_188 ELSE -1
        /\ op.b_force => sys.i_packet_size # -1

---------------------------------------------------------------------------
(* Streams a PMT update drops.  One program on PMT PID 32; its PMTs        *)
(* declare none, one or both of PID 48 (MPEG-2 video) and PID 49 (MPEG     *)
(* audio, or type 5, which has no category and gets no handle); between    *)
(* the updates a packet with unit start may set a block gathering on a     *)
(* PID.  op records the PIDs the table declares, whether the table was     *)
(* taken, and from before the handler the entries of the two PIDs and the  *)
(* count of registered streams.                                            *)

DropPids == {48, 49}

DropStreams == {<<>>,
                <<[i_pid |-> 48, i_type |-> 2, lang |-> ""]>>,
                <<[i_pid |-> 49, i_type |-> 3, lang |-> ""]>>,
                <<[i_pid |-> 48, i_type |-> 2, lang |-> ""],
                  [i_pid |-> 49, i_type |-> 3, lang |-> ""]>>,
                <<[i_pid |-> 48, i_type |-> 2, lang |-> ""],
                  [i_pid |-> 49, i_type |-> 5, lang |-> ""]>>}

DropPmts == [i_program_number : {1}, i_version : 0..(MaxVersion + 1),
             b_current_next : {TRUE}, i_pcr_pid : {48}, es : DropStreams]

DropRan(name, declared, b_accept, S) ==
    [name |-> name, declared |-> declared, b_accept |-> b_accept,
     pre |-> [pid |-> [p \in DropPids |-> S.pid[p]], i_pmt_es |-> S.i_pmt_es]]

DropInit ==
    /\ sys = [PATCallBack(OpenSys(TRUE),
                          [i_version |-> 0, b_current_next |-> TRUE,
                           programs |-> <<[i_number |-> 1, i_pid |-> 32]>>])
                 EXCEPT !.out = <<>>]
    /\ op = DropRan("Open", {}, FALSE, sys)

DropPMT ==
    \E p_pmt \in DropPmts :
        /\ sys' = PMTCallBack(sys, p_pmt)
        /\ op' = DropRan("PMT", {p_pmt.es[k].i_pid : k \in 1..Len(p_pmt.es)},
                         ~PMTDiscards(sys.pid[32].psi.prg[1], p_pmt), sys)

\* Demux on a packet of a valid elementary-stream PID that gathers nothing
DropPacket ==
    \E p \in DropPids :
        /\ sys.pid[p].b_valid /\ sys.pid[p].psi.st = "null"
        /\ sys.pid[p].es.p_data = <<>>
        /\ sys' = GatherData(sys, [CcPacketOf((sys.pid[p].i_cc + 1) % 16, TRUE, FALSE,
                                              "payload") EXCEPT !.i_pid = p], 0).S
        /\ op' = DropRan("Packet", {}, FALSE, sys)

DropNext == DropPMT \/ DropPacket

SpecDrop == DropInit /\ [][DropNext]_vars

\* the PIDs program 1 owned before the table and the table does not declare
Dropped ==
    {p \in DropPids : /\ op.pre.pid[p].b_valid
                      /\ op.pre.pid[p].psi.st = "null"
                      /\ op.pre.pid[p].p_owner = 32
                      /\ op.pre.pid[p].i_owner_number = 1
                      /\ p \notin op.declared}

\* the handles of the entry pe
Handles(pe) ==
    (IF pe.es.id # 0 THEN 1 ELSE 0) + Count(pe.extra_es, LAMBDA e : e.id # 0)

DelsOf(p) == Count(sys.out, LAMBDA e : e.ev = "Del" /\ e.a = p)

AddsOf(p) == Count(sys.out, LAMBDA e : e.ev = "Add" /\ e.a = p)

(* C26.  After an accepted PMT update of a program, every elementary-      *)
(* stream PID the program owned before and the table does not declare is   *)
(* invalid, every handle it had was removed from the output and none       *)
(* added, its stream state and the blocks gathered are released, and the   *)
(* count of registered streams is the count from before, less the handles  *)
(* removed, plus the handles added for the streams the table declares.     *)
C26_UndeclaredPidsAreTornDown ==
    (op.name = "PMT" /\ op.b_accept) =>
        /\ \A p \in Dropped :
               /\ ~sys.pid[p].b_valid
               /\ sys.pid[p].es = FreedEs
               /\ DelsOf(p) = Handles(op.pre.pid[p])
               /\ AddsOf(p) = 0
        /\ sys.i_pmt_es = op.pre.i_pmt_es - DelsOf(48) - DelsOf(49)
                                          + AddsOf(48) + AddsOf(49)

\* C26, witness: the program had video on 48 and audio on 49, a block
\* gathering on 49; a PMT that declares 48 alone removes the audio stream
\* and leaves one stream registered
C26_Witness ==
    /\ op.name = "PMT" /\ op.b_accept
    /\ Dropped = {49}
    /\ op.pre.pid[49].es.p_data # <<>> /\ op.pre.pid[49].es.id # 0
    /\ op.pre.i_pmt_es = 2
    /\ ~sys.pid[49].b_valid /\ DelsOf(49) = 1
    /\ sys.pid[48].b_valid
    /\ sys.i_pmt_es = 1

---------------------------------------------------------------------------
(* The descrambling key under csa_lock.  Two threads: the input thread,    *)
(* which runs GatherData packet after packet and then Close, and a thread  *)
(* that sets "ts-csa-ck" or "ts-csa2-ck", which runs ChangeKeyCallback.    *)
(* The session is [csa, csa_lock, pc, using, b_callback, i_packets,        *)
(* i_keys]: csa is "null" (no key given at Open), "live" or "deleted";     *)
(* csa_lock is the thread that holds the mutex, "none" when it is free;    *)
(* pc is where each thread stands; using holds the threads inside          *)
(* csa_Decrypt or csa_SetCW; b_callback tells whether the callbacks are    *)
(* registered.  var_DelCallback returns once no callback is running.       *)

MaxPackets == 2

MaxKeys == 2

\* vlc_mutex_lock can return
MutexFree_Always(S) == TRUE

MutexFree(S) == S.csa_lock = "none"

CsaSession(csa) ==
    [csa |-> csa, csa_lock |-> "none",
     pc |-> [demux |-> "idle", callback |-> "idle"],
     using |-> {}, b_callback |-> csa = "live", i_packets |-> 0, i_keys |-> 0]

CsaInit ==
    /\ sys \in {CsaSession(csa) : csa \in {"null", "live"}}
    /\ op = [name |-> "Open", thread |-> "demux"]

CsaStep(name, thread, S) ==
    /\ sys' = S
    /\ op' = [name |-> name, thread |-> thread]

\* GatherData: if( p_demux->p_sys->csa )
GatherDataTest ==
    /\ sys.pc.demux = "idle" /\ sys.i_packets < MaxPackets
    /\ CsaStep("GatherData", "demux",
               IF sys.csa # "null" THEN [sys EXCEPT !.pc.demux = "lock"]
               ELSE [sys EXCEPT !.i_packets = @ + 1])

GatherDataLock ==
    /\ sys.pc.demux = "lock" /\ MutexFree(sys)
    /\ CsaStep("vlc_mutex_lock", "demux",
               [sys EXCEPT !.csa_lock = "demux", !.pc.demux = "decrypt"])

\* csa_Decrypt is entered
GatherDataDecrypt ==
    /\ sys.pc.demux = "decrypt"
    /\ CsaStep("csa_Decrypt", "demux",
               [sys EXCEPT !.using = @ \cup {"demux"}, !.pc.demux = "decrypting"])

\* csa_Decrypt returns
GatherDataDecrypted ==
    /\ sys.pc.demux = "decrypting"
    /\ CsaStep("csa_Decrypt returns", "demux",
               [sys EXCEPT !.using = @ \ {"demux"}, !.pc.demux = "unlock"])

GatherDataUnlock ==
    /\ sys.pc.demux = "unlock"
    /\ CsaStep("vlc_mutex_unlock", "demux",
               [sys EXCEPT !.csa_lock = IF @ = "demux" THEN "none" ELSE @,
                           !.pc.demux = "idle", !.i_packets = @ + 1])

\* Close: vlc_mutex_lock, if( p_sys->csa )
CloseLock ==
    /\ sys.pc.demux = "idle" /\ MutexFree(sys)
    /\ CsaStep("vlc_mutex_lock", "demux",
               [sys EXCEPT !.csa_lock = "demux",
                           !.pc.demux = IF sys.csa # "null" THEN "var_DelCallback"
                                        ELSE "close unlock"])

CloseDelCallback ==
    /\ sys.pc.demux = "var_DelCallback" /\ sys.pc.callback = "idle"
    /\ CsaStep("var_DelCallback", "demux",
               [sys EXCEPT !.b_callback = FALSE, !.pc.demux = "csa_Delete"])

CloseDelete ==
    /\ sys.pc.demux = "csa_Delete"
    /\ CsaStep("csa_Delete", "demux",
               [sys EXCEPT !.csa = "deleted", !.pc.demux = "close unlock"])

CloseUnlock ==
    /\ sys.pc.demux = "close unlock"
    /\ CsaStep("vlc_mutex_unlock", "demux",
               [sys EXCEPT !.csa_lock = IF @ = "demux" THEN "none" ELSE @,
                           !.pc.demux = "closed"])

\* the variable is set and its callback begins
ChangeKeyCall ==
    /\ sys.pc.callback = "idle" /\ sys.b_callback /\ sys.i_keys < MaxKeys
    /\ CsaStep("ChangeKeyCallback", "callback", [sys EXCEPT !.pc.callback = "lock"])

ChangeKeyLock ==
    /\ sys.pc.callback = "lock" /\ MutexFree(sys)
    /\ CsaStep("vlc_mutex_lock", "callback",
               [sys EXCEPT !.csa_lock = "callback", !.pc.callback = "csa_SetCW"])

\* csa_SetCW is entered
ChangeKeySetCW ==
    /\ sys.pc.callback = "csa_SetCW"
    /\ CsaStep("csa_SetCW", "callback",
               [sys EXCEPT !.using = @ \cup {"callback"}, !.pc.callback = "setting"])

\* csa_SetCW returns
ChangeKeySetCWDone ==
    /\ sys.pc.callback = "setting"
    /\ CsaStep("csa_SetCW returns", "callback",
               [sys EXCEPT !.using = @ \ {"callback"}, !.pc.callback = "unlock"])

ChangeKeyUnlock ==
    /\ sys.pc.callback = "unlock"
    /\ CsaStep("vlc_mutex_unlock", "callback",
               [sys EXCEPT !.csa_lock = IF @ = "callback" THEN "none" ELSE @,
                           !.pc.callback = "idle", !.i_keys = @ + 1])

CsaNext ==
    \/ GatherDataTest \/ GatherDataLock \/ GatherDataDecrypt \/ GatherDataDecrypted
    \/ GatherDataUnlock
    \/ CloseLock \/ CloseDelCallback \/ CloseDelete \/ CloseUnlock
    \/ ChangeKeyCall \/ ChangeKeyLock \/ ChangeKeySetCW \/ ChangeKeySetCWDone
    \/ ChangeKeyUnlock

SpecCsa == CsaInit /\ [][CsaNext]_vars

(* C19.  csa_SetCW of ChangeKeyCallback and csa_Decrypt of GatherData are  *)
(* never running at the same time; a thread inside either holds csa_lock,  *)
(* from before it enters until after it returns; and csa_Delete of Close   *)
(* runs with csa_lock held by the thread of Close, and no thread is inside *)
(* csa_SetCW or csa_Decrypt once the key context is deleted.               *)
C19_KeyContextUnderLock ==
    /\ Cardinality(sys.using) <= 1
    /\ \A t \in sys.using : sys.csa_lock = t
    /\ \A t \in {"demux", "callback"} :
           sys.pc[t] \in {"decrypt", "decrypting", "csa_SetCW", "setting", "unlock"}
           => sys.csa_lock = t
    /\ sys.pc.demux \in {"var_DelCallback", "csa_Delete", "close unlock"}
           => sys.csa_lock = "demux"
    /\ sys.csa = "deleted" => sys.using = {}

\* C19, witness: the callback waits for the mutex while a packet is being
\* decrypted
C19_Witness ==
    /\ sys.using = {"demux"} /\ sys.csa_lock = "demux"
    /\ sys.pc.callback = "lock"

---------------------------------------------------------------------------
(* Demux.  The session reads a feed: runs of packets, each [kind, count,   *)
(* size].  The kinds are "pad" (PID 8191), "pat" (a packet of PID 0 with   *)
(* which the PAT decoder completes DemuxPat), "pmt" (a packet of PID 32    *)
(* with which the PMT decoder of program 1 completes DemuxPmt), "start" (a *)
(* packet of PID 48 that begins a PES of size bytes, 0 for a PES that      *)
(* declares no length) and "cont" (a packet of PID 48 that goes on); every *)
(* packet of PID 48 carries 184 bytes and the counter that follows the     *)
(* stored one.  sys.i_pos counts packets here and sys.out holds the calls  *)
(* of the whole call of Demux.  b_start_record is false: nobody records.   *)
(* op records the call: the value returned, whether the reader returned    *)
(* NULL, the value of b_frame and of the test on the ES count when the     *)
(* loop was left, b_wait_es and the offset from before.                    *)

\* Open: p_sys->i_ts_read = 50
TsRead == 50

\* 2^DemuxDepth turns are enough for the TsRead turns of the loop
DemuxDepth == 6

DemuxPat == [i_version |-> 0, b_current_next |-> TRUE,
             programs |-> <<[i_number |-> 1, i_pid |-> 32]>>]

DemuxPmt == [i_program_number |-> 1, i_version |-> 0, b_current_next |-> TRUE,
             i_pcr_pid |-> 48, es |-> <<[i_pid |-> 48, i_type |-> 2, lang |-> ""]>>]

Run(kind, count, size) == [kind |-> kind, count |-> count, size |-> size]

FeedLength(feed) == SeqSum([k \in 1..Len(feed) |-> feed[k].count])

\* the run that holds the packet at index idx
RECURSIVE FeedRun(_, _)
FeedRun(feed, idx) ==
    IF idx < Head(feed).count THEN Head(feed)
    ELSE FeedRun(Tail(feed), idx - Head(feed).count)

\* the packet at index idx of the feed, with the counter i_cc on PID 48
FeedPacket(feed, idx, i_cc) ==
    LET run == FeedRun(feed, idx)
    IN IF run.kind = "start"
       THEN PesPacket([Pes(run.size, 128, 5, Big(90000))
                          EXCEPT !.i_len = IF run.size = 0 THEN 0 ELSE run.size - 6],
                      0, 184, i_cc)
       ELSE IF run.kind = "cont" THEN TsPacket(i_cc, FALSE, FALSE, 0, 184, <<>>)
       ELSE [TsPacket(0, FALSE, FALSE, 0, 184, <<>>)
                EXCEPT !.i_pid = IF run.kind = "pat" THEN 0
                                 ELSE IF run.kind = "pmt" THEN 32 ELSE 8191,
                       !.data = <<run.kind>>]

\* ReadTSPacket on the feed: [S, p_pkt], NoPacket at its end
ReadFeedPacket(S) ==
    IF S.i_pos >= FeedLength(S.feed) THEN [S |-> S, p_pkt |-> NoPacket]
    ELSE [S |-> [S EXCEPT !.i_pos = @ + 1],
          p_pkt |-> FeedPacket(S.feed, S.i_pos, (S.pid[48].i_cc + 1) % 16)]

\* dvbpsi_PushPacket: the decoder calls back with the table the packet
\* completes
PushPacket(S, p_pkt) ==
    IF p_pkt.data = <<"pat">> THEN PATCallBack(S, DemuxPat)
    ELSE IF p_pkt.data = <<"pmt">> THEN PMTCallBack(S, DemuxPmt)
    ELSE S

\* "Parse the TS packet": [S, b_frame]
DemuxPacket(S0, p_pkt) ==
    Bind(S0, LAMBDA S :
        LET p_pid == S.pid[p_pkt.i_pid]
        IN Bind(IF p_pid.b_valid
                THEN IF p_pid.psi.st # "null"
                     THEN [S |-> PushPacket(S, p_pkt), i_ret |-> FALSE]
                     ELSE GatherData(S, p_pkt, 0)
                ELSE [S |-> PCRHandle([S EXCEPT !.out = <<>>], p_pkt.i_pid, p_pkt),
                      i_ret |-> FALSE], LAMBDA r :
               [S |-> [r.S EXCEPT !.pid[p_pkt.i_pid].b_seen = TRUE,
                                  !.out = S.out \o @],
                b_frame |-> r.i_ret]))

\* the test that leaves the loop, were it on b_frame alone
DemuxBreaks_FrameOnly(S, b_frame, b_wait_es) == b_frame

\* if( b_frame || ( b_wait_es && p_sys->i_pmt_es > 0 ) ) break;
DemuxBreaks(S, b_frame, b_wait_es) == b_frame \/ (b_wait_es /\ S.i_pmt_es > 0)

\* one turn of the for loop on st = [S, i_pkt, b_loop, i_ret, b_eof,
\* b_frame, b_es]
DemuxTurn(st, b_wait_es) ==
    IF st.i_pkt >= st.S.i_ts_read THEN [st EXCEPT !.b_loop = FALSE]
    ELSE Bind(ReadFeedPacket(st.S), LAMBDA r :
             IF r.p_pkt.i_pid = -1
             THEN [st EXCEPT !.b_loop = FALSE, !.i_ret = 0, !.b_eof = TRUE,
                             !.b_frame = FALSE, !.b_es = FALSE]
             ELSE Bind(DemuxPacket(r.S, r.p_pkt), LAMBDA d :
                      [S |-> d.S, i_pkt |-> st.i_pkt + 1,
                       b_loop |-> ~DemuxBreaks(d.S, d.b_frame, b_wait_es),
                       i_ret |-> 1, b_eof |-> FALSE, b_frame |-> d.b_frame,
                       b_es |-> b_wait_es /\ d.S.i_pmt_es > 0]))

\* the for loop, as two halves of two halves ...
RECURSIVE DemuxLoop(_, _, _)
DemuxLoop(st0, b_wait_es, level) ==
    Bind(st0, LAMBDA st :
        IF ~st.b_loop THEN st
        ELSE IF level = 0 THEN DemuxTurn(st, b_wait_es)
        ELSE DemuxLoop(DemuxLoop(st, b_wait_es, level - 1), b_wait_es, level - 1))

\* [S, i_ret, b_eof, b_frame, b_es]
Demux(S) ==
    DemuxLoop([S |-> [S EXCEPT !.out = <<>>], i_pkt |-> 0, b_loop |-> TRUE, i_ret |-> 1, b_eof |-> FALSE,
               b_frame |-> FALSE, b_es |-> FALSE],
              S.i_pmt_es <= 0, DemuxDepth)

\* feeds: PES of one and two packets and PES without length behind padding
\* of less and of more than a batch, with and without PAT and PMT first
Feeds ==
    {<<Run("pad", n, 0)>> \o psi \o <<Run("pad", m, 0)>> \o units :
        n \in {0, 3, 60}, m \in {0, 49, 50},
        psi \in {<<>>, <<Run("pat", 1, 0), Run("pmt", 1, 0)>>,
                 <<Run("pat", 1, 0), Run("pad", 2, 0), Run("pmt", 1, 0)>>},
        units \in {<<Run("start", 1, 184), Run("start", 1, 368), Run("cont", 1, 0)>>,
                   <<Run("start", 1, 0), Run("cont", 60, 0), Run("start", 1, 184)>>,
                   <<Run("start", 1, 368), Run("pad", 55, 0), Run("cont", 1, 0)>>}}

\* the sessions: after Open alone, and once PAT and PMT were applied
DemuxSessions == {OpenSys(TRUE), GatherSession(2)}

DemuxCalled(r, S) ==
    [name |-> "Demux", i_ret |-> r.i_ret, b_eof |-> r.b_eof, b_frame |-> r.b_frame,
     b_es |-> r.b_es, b_wait_es |-> S.i_pmt_es <= 0, i_pos |-> S.i_pos]

DemuxInit ==
    /\ sys \in {[k \in DOMAIN S \cup {"feed", "i_ts_read"} |->
                    IF k = "feed" THEN feed ELSE IF k = "i_ts_read" THEN TsRead
                    ELSE IF k = "i_pos" THEN 0 ELSE S[k]] :
                S \in DemuxSessions, feed \in Feeds}
    /\ op = [name |-> "Open", i_ret |-> 1, b_eof |-> FALSE, b_frame |-> FALSE,
             b_es |-> FALSE, b_wait_es |-> FALSE, i_pos |-> 0]

DemuxCall ==
    /\ ~op.b_eof
    /\ \E r \in {Demux(sys)} :
           /\ sys' = r.S
           /\ op' = DemuxCalled(r, sys)

DemuxNext == DemuxCall

SpecDemux == DemuxInit /\ [][DemuxNext]_vars

\* the packets the call read
PacketsRead == sys.i_pos - op.i_pos

\* the kind of the packet the call read last
LastKind == FeedRun(sys.feed, sys.i_pos - 1).kind

---------------------------------------------------------------------------
(* What a valid entry of the PID table holds.  The session is opened with  *)
(* or without ts-extra-pmt, then PATs and PMTs arrive in any order: PATs   *)
(* that move a program to another PMT PID, to a broadcast-metadata PID (17)*)
(* or to a PID that carried a stream (48), PMTs that declare streams on a  *)
(* fresh PID, on a broadcast-metadata PID (20), on the PAT PID and on a    *)
(* PMT PID.                                                                *)

KindOptions == {<<>>, UserPmtClaimed}

KindPatTables == [i_version : Versions, b_current_next : {TRUE},
                  programs : {<<[i_number |-> 1, i_pid |-> 32]>>,
                              <<[i_number |-> 1, i_pid |-> 17]>>,
                              <<[i_number |-> 1, i_pid |-> 48]>>,
                              <<[i_number |-> 1, i_pid |-> 32],
                                [i_number |-> 2, i_pid |-> 48]>>}]

KindPmtTables == [i_program_number : {1, 5}, i_version : Versions,
                  b_current_next : {TRUE}, i_pcr_pid : {48},
                  es : {<<[i_pid |-> 48, i_type |-> 2, lang |-> ""]>>,
                        <<[i_pid |-> 48, i_type |-> 2, lang |-> ""],
                          [i_pid |-> 20, i_type |-> 3, lang |-> ""]>>,
                        <<[i_pid |-> 0, i_type |-> 2, lang |-> ""],
                          [i_pid |-> 32, i_type |-> 3, lang |-> ""]>>}]

\* op: the handler that ran last and whether it met a stream on PID 48
KindRan(name, S) == [name |-> name,
                     b_es |-> S.pid[48].b_valid /\ S.pid[48].es.st = "live"]

KindInit ==
    /\ sys = OpenSys(TRUE)
    /\ op = KindRan("Module", sys)

\* Open: UserPmt runs when ts-extra-pmt is a non-empty string
KindOpen ==
    \E psz \in KindOptions :
        /\ op.name = "Module"
        /\ sys' = IF psz = <<>> THEN sys
                  ELSE UserPmt([sys EXCEPT !.out = <<>>], psz).S
        /\ op' = KindRan("Open", sys)

KindPAT ==
    \E p_pat \in KindPatTables :
        /\ op.name # "Module"
        /\ ~sys.crashed
        /\ sys' = PATCallBack(sys, p_pat)
        /\ op' = KindRan("PAT", sys)

KindPMT ==
    \E p_pmt \in KindPmtTables :
        /\ op.name # "Module"
        /\ ~sys.crashed
        /\ sys' = PMTCallBack(sys, p_pmt)
        /\ op' = KindRan("PMT", sys)

KindNext == KindOpen \/ KindPAT \/ KindPMT

SpecKind == KindInit /\ [][KindNext]_vars

\* pid->psi is set and pid->es is NULL
HoldsPsi(pe) == pe.psi.st # "null" /\ pe.es.st = "null"

\* pid->es is set and pid->psi is NULL
HoldsEs(pe) == pe.es.st # "null" /\ pe.psi.st = "null"

\* C27: in every reachable state a valid PID entry holds either PSI table
\* state or elementary-stream state, never both and never neither, and
\* what it holds is allocated; this across Open with and without a user
\* PMT, PAT and PMT updates and the teardown of the broadcast metadata.
C27_ValidEntryIsPsiOrEs ==
    \A p \in PIDS :
        sys.pid[p].b_valid =>
            /\ HoldsPsi(sys.pid[p]) # HoldsEs(sys.pid[p])
            /\ HoldsPsi(sys.pid[p]) => sys.pid[p].psi.st = "live"
            /\ HoldsEs(sys.pid[p]) => sys.pid[p].es.st = "live"

\* C27 witness: a PAT update made a PSI entry of PID 48, which a stream had
\* held and lost, while the broadcast metadata is torn down
C27_Witness ==
    /\ op.name = "PAT"
    /\ op.b_es
    /\ sys.pid[48].b_valid /\ HoldsPsi(sys.pid[48])
    /\ ~sys.b_dvb_meta /\ ~sys.pid[17].b_valid

---------------------------------------------------------------------------
(* The three probes of Open, one call each, in the order of Open.  Each is *)
(* called at an offset of 0 or 3 packets, on a stream with the PCR in every*)
(* packet, on one long enough for GetLastPCR to start 4500 packets before  *)
(* the end, on one whose tail carries no PCR, and on one without any PCR;  *)
(* the object is alive throughout or is killed before the first, second or *)
(* third turn of the probe's loop.                                         *)

ProbeStreams == {[n |-> 40, step |-> 900, p0 |-> Big(1000), every |-> 1,
                  jump |-> 0, blank |-> 0],
                 [n |-> 4510, step |-> 201, p0 |-> Big(0), every |-> 2,
                  jump |-> 0, blank |-> 0],
                 [n |-> 4510, step |-> 201, p0 |-> Big(0), every |-> 1,
                  jump |-> 0, blank |-> 230],
                 [n |-> 6, step |-> 900, p0 |-> Big(0), every |-> 1,
                  jump |-> 0, blank |-> 6]}

\* stream_Tell when Open gets to the probes, in packets
ProbeOffsets == {0, 3}

\* the number of turns a probe's loop is let to start (-1: all)
MaxAlive == 2

ProbeAlive == (-1)..MaxAlive

\* op: the probe that ran last, the turns its loop was given, and the
\* offset and the current PCR it met
ProbeRan(name, i_alive, S) ==
    [name |-> name, i_alive |-> i_alive, i_pos |-> S.i_pos, i_pcr |-> S.i_current_pcr,
     i_first_pcr |-> S.i_first_pcr, i_last_pcr |-> S.i_last_pcr]

ProbeInit ==
    /\ sys \in {[SeekSession(s) EXCEPT !.i_pos = i * TS_PACKET_SIZE_188] :
                   s \in ProbeStreams, i \in ProbeOffsets}
    /\ op = ProbeRan("Module", -1, sys)

\* the session a probe returns to Open; the object is what it was
ProbeReturns(S) == [S EXCEPT !.b_alive = TRUE, !.i_alive = -1]

ProbeFirst ==
    \E i_alive \in ProbeAlive :
        /\ op.name = "Module"
        /\ sys' = ProbeReturns(GetFirstPCR([sys EXCEPT !.i_alive = i_alive]))
        /\ op' = ProbeRan("GetFirstPCR", i_alive, sys)

ProbeCheck ==
    \E i_alive \in ProbeAlive :
        /\ op.name = "GetFirstPCR"
        /\ sys' = ProbeReturns(CheckPCR([sys EXCEPT !.i_alive = i_alive]))
        /\ op' = ProbeRan("CheckPCR", i_alive, sys)

ProbeLast ==
    \E i_alive \in ProbeAlive :
        /\ op.name = "CheckPCR"
        /\ sys' = ProbeReturns(GetLastPCR([sys EXCEPT !.i_alive = i_alive]))
        /\ op' = ProbeRan("GetLastPCR", i_alive, sys)

ProbeNext == ProbeFirst \/ ProbeCheck \/ ProbeLast

SpecProbe == ProbeInit /\ [][ProbeNext]_vars

\* C28: GetFirstPCR, CheckPCR and GetLastPCR each return with the stream
\* at the offset it had when they were called, whether a PCR was found or
\* not, whether the stream ended, and whether the object was killed during
\* the probe; CheckPCR and GetLastPCR return with the current PCR they
\* were called with.
C28_ProbesRestoreOffsetAndPcr ==
    /\ op.name \in {"GetFirstPCR", "CheckPCR", "GetLastPCR"} => sys.i_pos = op.i_pos
    /\ op.name \in {"CheckPCR", "GetLastPCR"} => sys.i_current_pcr = op.i_pcr

\* C28 witness: called 3 packets into the stream with the object alive,
\* GetLastPCR found the last PCR, the probes before it having found theirs
C28_Witness ==
    /\ op.name = "GetLastPCR" /\ op.i_alive = -1
    /\ op.i_pos = 3 * TS_PACKET_SIZE_188
    /\ op.i_last_pcr[1] < 0 /\ sys.i_last_pcr[1] >= 0
    /\ sys.i_first_pcr[1] >= 0
    /\ ~sys.b_force_seek_per_percent

---------------------------------------------------------------------------
(* b_force_seek_per_percent over a session: Open, on a stream that can     *)
(* seek fast or cannot and with "ts-seek-percent" on or off, then the      *)
(* position is set and position, time and length are asked for in any      *)
(* order, with and without a running event known from the EIT.  The        *)
(* streams: one whose PCRs are found and bracket every target, one whose   *)
(* PCR leaps (Seek fails), one too short for GetLastPCR, one without PCR.  *)

PercentStreams == {[n |-> 4510, step |-> 201, p0 |-> Big(90000), every |-> 1,
                    jump |-> 0, blank |-> 0],
                   [n |-> 4510, step |-> 90, p0 |-> Big(0), every |-> 1,
                    jump |-> 450000, blank |-> 0],
                   [n |-> 40, step |-> 201, p0 |-> Big(0), every |-> 1,
                    jump |-> 0, blank |-> 0],
                   [n |-> 6, step |-> 900, p0 |-> Big(0), every |-> 1,
                    jump |-> 0, blank |-> 6]}

\* what DVBEventInformation has to go by: no event, or one of 60 s that
\* has run for 5 s
DvbEvents == {[b_ok |-> FALSE, i_time |-> 0, i_length |-> 0],
              [b_ok |-> TRUE, i_time |-> 5000000, i_length |-> 60000000]}

\* op: the handler that ran last, its arguments, what it returned, and the
\* flag, the offset and the PCRs it met
PercentRan(name, f8, env, dvb, b_ok, ret, S) ==
    [name |-> name, f8 |-> f8, env |-> env, dvb |-> dvb, b_ok |-> b_ok, ret |-> ret,
     b_force |-> S.b_force_seek_per_percent, i_pos |-> S.i_pos,
     i_pcr |-> S.i_current_pcr]

NoRet == [val |-> <<>>, from |-> "none"]

NoEvent == [b_ok |-> FALSE, i_time |-> 0, i_length |-> 0]

PercentInit ==
    /\ sys \in {[SeekSession(s) EXCEPT !.b_fastseek = b_can,
                                       !.b_force_seek_per_percent = b_opt] :
                   s \in PercentStreams, b_can \in BOOLEAN, b_opt \in BOOLEAN}
    /\ op = PercentRan("Module", 0, SeekEnvs[1], NoEvent, TRUE, NoRet, sys)

PercentOpen ==
    /\ op.name = "Module"
    /\ sys' = Open(sys)
    /\ op' = PercentRan("Open", 0, SeekEnvs[1], NoEvent, TRUE, NoRet, sys)

PercentSetPosition ==
    \E f8 \in Eighths, e \in 1..Len(SeekEnvs) :
        /\ op.name # "Module"
        /\ \E r \in {ControlSetPosition(
                          [sys EXCEPT !.b_alive = SeekEnvs[e].b_alive,
                                      !.i_seek_fail = SeekEnvs[e].i_seek_fail], f8)} :
               /\ sys' = [r.S EXCEPT !.b_alive = TRUE, !.i_seek_fail = -1]
               /\ op' = PercentRan("SetPosition", f8, SeekEnvs[e], NoEvent, r.b_ok,
                                   NoRet, sys)

PercentGetPosition ==
    \E dvb \in DvbEvents :
        /\ op.name # "Module"
        /\ sys' = sys
        /\ \E r \in {ControlGetPosition(sys, dvb)} :
               op' = PercentRan("GetPosition", 0, SeekEnvs[1], dvb, TRUE,
                                [val |-> r.pf, from |-> r.from], sys)

PercentGetTime ==
    \E dvb \in DvbEvents :
        /\ op.name # "Module"
        /\ sys' = sys
        /\ \E r \in {ControlGetTime(sys, dvb)} :
               op' = PercentRan("GetTime", 0, SeekEnvs[1], dvb, TRUE,
                                [val |-> r.pi64, from |-> r.from], sys)

PercentGetLength ==
    \E dvb \in DvbEvents :
        /\ op.name # "Module"
        /\ sys' = sys
        /\ \E r \in {ControlGetLength(sys, dvb)} :
               op' = PercentRan("GetLength", 0, SeekEnvs[1], dvb, TRUE,
                                [val |-> r.pi64, from |-> r.from], sys)

PercentNext ==
    \/ PercentOpen
    \/ PercentSetPosition
    \/ PercentGetPosition
    \/ PercentGetTime
    \/ PercentGetLength

SpecPercent == PercentInit /\ [][PercentNext]_vars

\* what a query answers when it leaves the PCRs aside
AnswerWithoutPcr ==
    CASE op.name = "GetPosition" ->
             IF op.dvb.b_ok THEN <<Big(op.dvb.i_time), Big(op.dvb.i_length)>>
             ELSE <<Big(sys.i_pos), Big(stream_Size(sys))>>
      [] op.name = "GetTime" -> Big(op.dvb.i_time)
      [] op.name = "GetLength" -> Big(op.dvb.i_length)
      [] OTHER -> <<>>

\* C29: when Open returns, b_force_seek_per_percent is set if the first or
\* the last PCR was not found, the probes having run or not; a handler
\* that meets the flag set leaves it set; a DEMUX_SET_POSITION that meets
\* it set seeks the offset f * size and leaves the current PCR alone (no
\* bisection), and DEMUX_GET_POSITION, DEMUX_GET_TIME and DEMUX_GET_LENGTH
\* that meet it set answer from the running event or the offset, not from
\* the PCRs.
C29_ForcedPercentIsKeptAndObeyed ==
    /\ op.name = "Open" =>
           ((sys.i_first_pcr[1] < 0 \/ sys.i_last_pcr[1] < 0)
            => sys.b_force_seek_per_percent)
    /\ op.b_force => sys.b_force_seek_per_percent
    /\ (op.b_force /\ op.name = "SetPosition") =>
           /\ sys.i_current_pcr = op.i_pcr
           /\ sys.i_pos = IF op.b_ok THEN (stream_Size(sys) * op.f8) \div 8
                          ELSE op.i_pos
    /\ (op.b_force /\ op.name \in {"GetPosition", "GetTime", "GetLength"}) =>
           /\ op.ret.from # "pcr"
           /\ op.ret.val = AnswerWithoutPcr

\* C29 witness: the stream cannot seek fast, Open set the flag without
\* probing, and a later DEMUX_GET_TIME answered 0 for want of an event
C29_Witness ==
    /\ ~sys.b_fastseek /\ sys.i_first_pcr[1] < 0
    /\ sys.b_force_seek_per_percent
    /\ op.name = "GetTime" /\ op.b_force /\ ~op.dvb.b_ok
    /\ op.ret.val = Big(0)

---------------------------------------------------------------------------
(* The order in which the decoders of the DVB tables are attached.  The    *)
(* demultiplexers of PIDs 0x11, 0x12 and 0x14 announce tables of any id,   *)
(* in any order with the PATs, PMTs and SDTs; a PAT that names PID 0x11 as *)
(* a PMT PID ends the DVB tables.                                          *)

\* NIT, SDT, EIT present/following, EIT schedule (first and last id), TDT,
\* TOT
AttachTableIds == {64, 66, 78, 80, 95, 112, 115}

AttachPatTables == [i_version : Versions, b_current_next : BOOLEAN,
                    programs : {<<[i_number |-> 1, i_pid |-> 32]>>,
                                <<[i_number |-> 1, i_pid |-> 17]>>}]

\* op: the handler that ran last, the table id announced, and the
\* versions stored and the decoders attached when it was called
AttachRan(name, i_table_id, S) ==
    [name |-> name, i_table_id |-> i_table_id,
     i_pat_version |-> S.pid[0].psi.i_pat_version,
     i_sdt_version |-> S.pid[17].psi.i_sdt_version,
     attached |-> S.attached]

AttachInit ==
    /\ sys = OpenSys(TRUE)
    /\ op = AttachRan("Open", 0, sys)

AttachPAT ==
    \E p_pat \in AttachPatTables :
        /\ ~sys.crashed
        /\ sys' = PATCallBack(sys, p_pat)
        /\ op' = AttachRan("PAT", 0, sys)

AttachPMT ==
    \E p_pmt \in SiPmtTables :
        /\ ~sys.crashed
        /\ sys' = PMTCallBack(sys, p_pmt)
        /\ op' = AttachRan("PMT", 2, sys)

AttachNewTable ==
    \E i_table_id \in AttachTableIds :
        /\ ~sys.crashed
        /\ sys.b_dvb_meta
        /\ sys' = PSINewTableCallBack(sys, i_table_id)
        /\ op' = AttachRan("NewTable", i_table_id, sys)

AttachSDT ==
    \E p_sdt \in SdtTables :
        /\ ~sys.crashed
        /\ "sdt" \in sys.attached
        /\ sys' = SDTCallBack(sys, p_sdt)
        /\ op' = AttachRan("SDT", 66, sys)

AttachNext == AttachPAT \/ AttachPMT \/ AttachNewTable \/ AttachSDT

SpecAttach == AttachInit /\ [][AttachNext]_vars

\* the decoders the last handler attached
Attached == sys.attached \ op.attached

\* C30: an SDT decoder is attached only by a notification that finds a
\* PAT applied (the PAT version stored is not -1), an EIT or TDT/TOT
\* decoder only by one that finds an SDT applied (the SDT version stored
\* is not -1); a notification that comes before attaches nothing, and no
\* other handler attaches a decoder.  So a decoder for the SDT is there
\* only after a PAT, one for the EIT or the TDT/TOT only after an SDT.
C30_DecodersAttachedInOrder ==
    /\ "sdt" \in Attached =>
           op.name = "NewTable" /\ op.i_table_id = 66 /\ op.i_pat_version # -1
    /\ "eit" \in Attached =>
           /\ op.name = "NewTable" /\ op.i_sdt_version # -1
           /\ op.i_table_id = 78 \/ op.i_table_id \in 80..95
    /\ "tdt" \in Attached =>
           /\ op.name = "NewTable" /\ op.i_sdt_version # -1
           /\ op.i_table_id \in {112, 115}
    /\ (op.name = "NewTable" /\ op.i_table_id = 66 /\ op.i_pat_version = -1)
           => Attached = {}
    /\ (op.name = "NewTable" /\ op.i_table_id # 66 /\ op.i_sdt_version = -1)
           => Attached = {}
    /\ "sdt" \in sys.attached => sys.pid[0].psi.i_pat_version # -1
    /\ ("eit" \in sys.attached \/ "tdt" \in sys.attached) =>
           sys.pid[17].psi.i_sdt_version # -1

\* C30 witness: the notification of a TOT found an SDT applied and
\* attached the decoder, after an earlier notification had attached the
\* one of the EIT
C30_Witness ==
    /\ op.name = "NewTable" /\ op.i_table_id = 115
    /\ op.i_sdt_version # -1 /\ op.i_pat_version # -1
    /\ Attached = {"tdt"}
    /\ sys.attached = {"sdt", "eit", "tdt"}

---------------------------------------------------------------------------
(* ReadTSPacket on the bytes of the stream.  A stream is [i_packet_size,   *)
(* i_packet_header_size, pre, junk, stray, post, tail]: pre packets, junk  *)
(* bytes of garbage, post packets and tail bytes of garbage.  A packet is  *)
(* i_packet_header_size bytes of pre-header (200), the sync byte 0x47 (71) *)
(* and payload bytes (0); garbage is 255, but 0x47 at the offsets stray    *)
(* of the first garbage.  The session is [stream, i_pos, pc, b_alive, oob, *)
(* p_pkt]: i_pos is stream_Tell, pc is "idle" between calls and "resync"   *)
(* at the head of the while loop, b_alive what vlc_object_alive answers    *)
(* during the call, oob the byte a read past the end of a block or of the  *)
(* peeked bytes yields, and p_pkt the block returned last: i_start is the  *)
(* offset in the stream p_buffer points to, i_buffer the length.           *)

SyncKinds == {<<188, 0>>, <<192, 4>>, <<204, 0>>}

SyncShapes == {[pre |-> 2, junk |-> 0, stray |-> {}, post |-> 0, tail |-> 0],
               [pre |-> 1, junk |-> 1, stray |-> {}, post |-> 3, tail |-> 0],
               [pre |-> 1, junk |-> 5, stray |-> {2}, post |-> 3, tail |-> 0],
               [pre |-> 0, junk |-> 300, stray |-> {7, 100}, post |-> 2, tail |-> 3],
               [pre |-> 1, junk |-> 2100, stray |-> {}, post |-> 3, tail |-> 0],
               [pre |-> 1, junk |-> 190, stray |-> {}, post |-> 1, tail |-> 0],
               [pre |-> 1, junk |-> 400, stray |-> {0}, post |-> 0, tail |-> 0],
               [pre |-> 1, junk |-> 0, stray |-> {}, post |-> 0, tail |-> 2]}

SyncStreams == {[i_packet_size |-> k[1], i_packet_header_size |-> k[2],
                 pre |-> f.pre, junk |-> f.junk, stray |-> f.stray, post |-> f.post,
                 tail |-> f.tail] : k \in SyncKinds, f \in SyncShapes}

SyncLength(st) == (st.pre + st.post) * st.i_packet_size + st.junk + st.tail

\* the byte at offset i of the stream, i below SyncLength
SyncByte(st, i) ==
    LET InPacket(k) == IF k < st.i_packet_header_size THEN 200
                       ELSE IF k = st.i_packet_header_size THEN 71 ELSE 0
        i_junk == st.pre * st.i_packet_size
        i_post == i_junk + st.junk
    IN IF i < i_junk THEN InPacket(i % st.i_packet_size)
       ELSE IF i < i_post THEN (IF (i - i_junk) \in st.stray THEN 71 ELSE 255)
       ELSE IF i < i_post + st.post * st.i_packet_size
       THEN InPacket((i - i_post) % st.i_packet_size)
       ELSE 255

NoBlock == [b_null |-> TRUE, i_start |-> 0, i_buffer |-> 0]

\* stream_Block( s, i_size ): [S, p_pkt], NULL at the end of the stream
SyncBlock(S, i_size) ==
    LET i_left == SyncLength(S.stream) - S.i_pos
    IN IF i_left <= 0 THEN [S |-> S, p_pkt |-> NoBlock]
       ELSE [S |-> [S EXCEPT !.i_pos = @ + Min(i_size, i_left)],
             p_pkt |-> [b_null |-> FALSE, i_start |-> S.i_pos,
                        i_buffer |-> Min(i_size, i_left)]]

\* p_pkt->p_buffer[0]
FirstByte(S, p_pkt) ==
    IF p_pkt.i_buffer > 0 THEN SyncByte(S.stream, p_pkt.i_start) ELSE S.oob

\* p_peek[i] of the i_peek bytes stream_Peek gave at the offset of S
PeekByte(S, i_peek, i) ==
    IF i < i_peek THEN SyncByte(S.stream, S.i_pos + i) ELSE S.oob

\* ReadTSPacket up to the test of the sync byte: the block with the
\* pre-header skipped, and whether the while loop is entered
ReadTSPacketHead(S0) ==
    LET r == SyncBlock(S0, S0.stream.i_packet_size)
        p_pkt == [r.p_pkt EXCEPT !.i_start = @ + S0.stream.i_packet_header_size,
                                 !.i_buffer = @ - S0.stream.i_packet_header_size]
    IN IF r.p_pkt.b_null THEN [r.S EXCEPT !.p_pkt = NoBlock]
       ELSE IF FirstByte(r.S, p_pkt) # 71
       THEN [r.S EXCEPT !.pc = "resync", !.p_pkt = NoBlock]
       ELSE [r.S EXCEPT !.p_pkt = p_pkt]

\* the stream_Block behind the while loop, and the return
ReadTSPacketTail(S) ==
    LET r == SyncBlock(S, S.stream.i_packet_size)
    IN [r.S EXCEPT !.pc = "idle", !.p_pkt = r.p_pkt]

\* the i_skip the inner while loop ends on
ResyncSkip(S, i_peek) ==
    LET i_size == S.stream.i_packet_size
        i_header == S.stream.i_packet_header_size
        hits == {k \in 0..(i_peek - i_size - 1) :
                    /\ PeekByte(S, i_peek, k + i_header) = 71
                    /\ PeekByte(S, i_peek, k + i_header + i_size) = 71}
    IN IF hits = {} THEN i_peek - i_size
       ELSE CHOOSE k \in hits : \A j \in hits : k <= j

\* ResyncPass, were it not to read the garbage it skips
ResyncPass_NoRead(S) ==
    LET i_size == S.stream.i_packet_size
        i_peek == Min(i_size * 10, SyncLength(S.stream) - S.i_pos)
    IN IF ~S.b_alive THEN ReadTSPacketTail(S)
       ELSE IF i_peek < i_size + 1 THEN [S EXCEPT !.pc = "idle", !.p_pkt = NoBlock]
       ELSE IF ResyncSkip(S, i_peek) < i_peek - i_size
       THEN ReadTSPacketTail([S EXCEPT !.i_pos = @ + ResyncSkip(S, i_peek)])
       ELSE S

\* one pass of the while loop of ReadTSPacket, with what follows the loop
\* when the pass ends it
ResyncPass(S) ==
    LET i_size == S.stream.i_packet_size
        i_peek == Min(i_size * 10, SyncLength(S.stream) - S.i_pos)
    IN IF ~S.b_alive THEN ReadTSPacketTail(S)
       ELSE IF i_peek < i_size + 1 THEN [S EXCEPT !.pc = "idle", !.p_pkt = NoBlock]
       ELSE Bind(ResyncSkip(S, i_peek), LAMBDA i_skip :
            \* stream_Read( s, NULL, i_skip )
            Bind([S EXCEPT !.i_pos = @ + i_skip], LAMBDA T :
                 IF i_skip < i_peek - i_size THEN ReadTSPacketTail(T) ELSE T))

\* op: the step taken last, the offset at which ReadTSPacket was called,
\* the offset behind the block that had lost the sync (-1: none in this
\* call), and the offset and the passes made when the step was taken
SyncRan(name, i_call, i_lost, i_passes, S) ==
    [name |-> name, i_call |-> i_call, i_lost |-> i_lost, i_passes |-> i_passes,
     i_pos |-> S.i_pos]

SyncInit ==
    /\ sys \in {[stream |-> st, i_pos |-> 0, pc |-> "idle", b_alive |-> TRUE,
                  oob |-> 0, p_pkt |-> NoBlock] : st \in SyncStreams}
    /\ op = SyncRan("Module", 0, -1, 0, sys)

\* ReadTSPacket is called
SyncRead ==
    \E b_alive \in BOOLEAN, oob \in {0, 71} :
        /\ sys.pc = "idle"
        /\ sys.i_pos < SyncLength(sys.stream) \/ op.name = "Module" \/ ~sys.p_pkt.b_null
        /\ sys' = ReadTSPacketHead([sys EXCEPT !.b_alive = b_alive, !.oob = oob])
        /\ op' = SyncRan("Read", sys.i_pos,
                         IF sys'.pc = "resync" THEN sys'.i_pos ELSE -1, 0, sys)

\* the while loop makes a pass
SyncPass ==
    /\ sys.pc = "resync"
    /\ sys' = ResyncPass(sys)
    /\ op' = SyncRan("Pass", op.i_call, op.i_lost, op.i_passes + 1, sys)

SyncNext == SyncRead \/ SyncPass

SpecSync == SyncInit /\ [][SyncNext]_vars

\* the while loop is the thread's only work while it lasts
SpecSyncFair == SpecSync /\ WF_vars(SyncPass)

\* ReadTSPacket has returned a packet
SyncReturned == op.name # "Module" /\ sys.pc = "idle" /\ ~sys.p_pkt.b_null

\* the first offset from i on with two sync bytes one packet size apart
\* behind the pre-header, SyncLength for none
FirstPair(st, i) ==
    LET hits == {k \in i..(SyncLength(st) - 1) :
                    /\ k + st.i_packet_header_size + st.i_packet_size < SyncLength(st)
                    /\ SyncByte(st, k + st.i_packet_header_size) = 71
                    /\ SyncByte(st, k + st.i_packet_header_size + st.i_packet_size) = 71}
    IN IF hits = {} THEN SyncLength(st)
       ELSE CHOOSE k \in hits : \A j \in hits : k <= j

\* C31, as stated: every packet ReadTSPacket returns, with or without a
\* resynchronisation and for a pre-header of 0 and of 4 bytes, begins with
\* the sync byte 0x47 behind the pre-header, which is not part of it; after
\* lost sync the bytes discarded are those before the first offset at which
\* two sync bytes lie one packet size apart.
C31_PacketsBeginWithSync ==
    (SyncReturned /\ sys.b_alive) =>
        /\ sys.p_pkt.i_buffer > 0
        /\ SyncByte(sys.stream, sys.p_pkt.i_start) = 71
        /\ sys.p_pkt.i_buffer
               = sys.stream.i_packet_size - sys.stream.i_packet_header_size
        /\ op.i_lost # -1 =>
               sys.p_pkt.i_start = FirstPair(sys.stream, op.i_lost)
                                   + sys.stream.i_packet_header_size

\* the bytes of the stream not yet read
SyncLeft == SyncLength(sys.stream) - sys.i_pos

\* C40: the resynchronisation loop of ReadTSPacket ends on every finite
\* stream: a pass that does not end the call has read at least one byte,
\* a call that entered the loop returns, and it returns no packet only when
\* fewer than one packet and one byte are left in the stream.
C40_ResyncTerminates ==
    /\ [][(sys.pc = "resync" /\ sys'.pc = "resync") => sys'.i_pos > sys.i_pos]_vars
    /\ [](op.name = "Pass" /\ sys.pc = "idle" /\ sys.p_pkt.b_null
             => SyncLeft < sys.stream.i_packet_size + 1)
    /\ (sys.pc = "resync") ~> (sys.pc = "idle")

\* a call returned a packet after two passes of the loop or more
C40_Witness == SyncReturned /\ op.name = "Pass" /\ op.i_passes >= 2

---------------------------------------------------------------------------
(* The counter of registered elementary streams.                           *)

\* the es_out_id_t handles an entry of the PID table holds
HandlesOf(pe) ==
    IF ~pe.b_valid \/ pe.es.st # "live" THEN 0
    ELSE (IF pe.es.id # 0 THEN 1 ELSE 0)
         + Cardinality({k \in 1..Len(pe.extra_es) : pe.extra_es[k].id # 0})

RECURSIVE HandleSum(_, _)
HandleSum(pid, i) ==
    IF i > Len(PidSeq) THEN 0 ELSE HandlesOf(pid[PidSeq[i]]) + HandleSum(pid, i + 1)

\* the handles over all valid entries of the PID table
RegisteredEs(S) == HandleSum(S.pid, 1)

(* Open with and without a user PMT that registers streams, then PATs that *)
(* add and drop programs and PMTs that declare video, teletext with one    *)
(* or three pages, and nothing.                                            *)

CountOptions == {<<>>, UserPmtFourcc}

CountPatTables == [i_version : Versions, b_current_next : {TRUE},
                   programs : {<<>>,
                               <<[i_number |-> 1, i_pid |-> 32]>>,
                               <<[i_number |-> 1, i_pid |-> 32],
                                 [i_number |-> 2, i_pid |-> 33]>>}]

CountPmtTables == [i_program_number : {1, 2, 5}, i_version : Versions,
                   b_current_next : {TRUE}, i_pcr_pid : {48},
                   es : {<<>>,
                         <<[i_pid |-> 48, i_type |-> 2, lang |-> ""]>>,
                         <<[i_pid |-> 48, i_type |-> 2, lang |-> ""],
                           [i_pid |-> 49, i_type |-> 6, lang |-> "", i_page |-> 3]>>,
                         <<[i_pid |-> 49, i_type |-> 6, lang |-> "", i_page |-> 1],
                           [i_pid |-> 200, i_type |-> 3, lang |-> ""]>>}]

\* op: the handler that ran last and the counter it met
CountRan(name, S) == [name |-> name, i_pmt_es |-> S.i_pmt_es]

CountInit ==
    /\ sys = OpenSys(TRUE)
    /\ op = CountRan("Module", sys)

CountOpen ==
    \E psz \in CountOptions :
        /\ op.name = "Module"
        /\ sys' = IF psz = <<>> THEN sys
                  ELSE UserPmt([sys EXCEPT !.out = <<>>], psz).S
        /\ op' = CountRan("Open", sys)

CountPAT ==
    \E p_pat \in CountPatTables :
        /\ op.name # "Module"
        /\ ~sys.crashed
        /\ sys' = [PATCallBack(sys, p_pat) EXCEPT !.out = <<>>]
        /\ op' = CountRan("PAT", sys)

CountPMT ==
    \E p_pmt \in CountPmtTables :
        /\ op.name # "Module"
        /\ ~sys.crashed
        /\ sys' = [PMTCallBack(sys, p_pmt) EXCEPT !.out = <<>>]
        /\ op' = CountRan("PMT", sys)

CountNext == CountOpen \/ CountPAT \/ CountPMT

SpecCount == CountInit /\ [][CountNext]_vars

\* C32: after every completed user-PMT, PAT or PMT operation i_pmt_es is
\* the number of streams and sub-streams with a handle of the output over
\* the valid entries of the PID table; it is never negative, and 0 when no
\* stream is registered.
C32_CounterIsHandles ==
    (op.name # "Module" /\ ~sys.crashed) =>
        /\ sys.i_pmt_es = RegisteredEs(sys)
        /\ sys.i_pmt_es >= 0
        /\ (\A p \in PIDS : HandlesOf(sys.pid[p]) = 0) => sys.i_pmt_es = 0

\* C32 witness: a PAT dropped a program whose teletext PID held three
\* handles, and other streams stay registered
C32_Witness ==
    /\ op.name = "PAT"
    /\ op.i_pmt_es >= sys.i_pmt_es + 3
    /\ sys.i_pmt_es > 0
    /\ ~sys.pid[49].b_valid

---------------------------------------------------------------------------
\* C33, as stated: after GatherData has handled a packet of an elementary
\* stream PID the stored continuity counter is the counter of that packet,
\* with and without the discontinuity indicator, so that a packet with
\* payload and the next counter raises no continuity error.
C33_StoredCounterIsPackets ==
    op.name = "Packet" =>
        /\ sys.pid[48].i_cc = op.pk.i_cc
        /\ TestContinuity(sys.pid[48],
                          CcPacketOf((op.pk.i_cc + 1) % 16, FALSE, FALSE, "payload"),
                          FALSE).out = <<>>

---------------------------------------------------------------------------
(* PATs that name as PMT PID a fresh PID, the PID of the PAT, a PID of the *)
(* broadcast metadata or a PID a PMT may have made a stream of.  op        *)
(* records, from before the handler ran, the PIDs that were valid streams, *)
(* and for a PAT the PMT PIDs it names and whether it was discarded.       *)

NamedPatTables == [i_version : Versions, b_current_next : {TRUE},
                   programs : {<<[i_number |-> 1, i_pid |-> 32]>>,
                               <<[i_number |-> 1, i_pid |-> 0]>>,
                               <<[i_number |-> 1, i_pid |-> 48]>>,
                               <<[i_number |-> 1, i_pid |-> 32],
                                 [i_number |-> 2, i_pid |-> 48]>>,
                               <<[i_number |-> 1, i_pid |-> 32],
                                 [i_number |-> 2, i_pid |-> 0]>>}]

NamedRan(name, S, named, b_discard) ==
    [name |-> name, named |-> named, b_discard |-> b_discard,
     es |-> {p \in PIDS : S.pid[p].b_valid /\ HoldsEs(S.pid[p])}]

NamedInit ==
    /\ sys = OpenSys(TRUE)
    /\ op = NamedRan("Open", sys, {}, FALSE)

NamedPAT ==
    \E p_pat \in NamedPatTables :
        /\ ~sys.crashed
        /\ sys' = [PATCallBack(sys, p_pat) EXCEPT !.out = <<>>]
        /\ op' = NamedRan("PAT", sys,
                          {p_pat.programs[k].i_pid : k \in 1..Len(p_pat.programs)},
                          PATDiscards(sys, p_pat))

NamedPMT ==
    \E p_pmt \in KindPmtTables :
        /\ ~sys.crashed
        /\ sys' = [PMTCallBack(sys, p_pmt) EXCEPT !.out = <<>>]
        /\ op' = NamedRan("PMT", sys, {}, FALSE)

NamedNext == NamedPAT \/ NamedPMT

SpecNamed == NamedInit /\ [][NamedNext]_vars

\* C34, as stated: an accepted PAT that names as PMT PID a PID that is a
\* valid elementary-stream PID when the PAT arrives, or PID 0, does not
\* make PATCallBack read the program list of an entry without PSI state.
C34_PatReadsPsiStateOnly ==
    (op.name = "PAT" /\ ~op.b_discard /\ op.named \cap (op.es \cup {0}) # {})
        => ~sys.crashed

---------------------------------------------------------------------------
(* The frame of PMTCallBack.  Two programs on one PMT PID or on two, and   *)
(* PMTs that declare nothing, video on PID 48, audio on PID 49, or audio   *)
(* on PID 49, the PMT PID and the SDT PID.  op records the PID table       *)
(* and b_dvb_meta from before the handler, and for a PMT the program, its  *)
(* PMT PID (-1: not tracked), the PIDs it names and whether it was taken.  *)

FramePatTables == {[i_version |-> 0, b_current_next |-> TRUE,
                    programs |-> <<[i_number |-> 1, i_pid |-> 32],
                                   [i_number |-> 2, i_pid |-> 32]>>],
                   [i_version |-> 1, b_current_next |-> TRUE,
                    programs |-> <<[i_number |-> 1, i_pid |-> 32],
                                   [i_number |-> 2, i_pid |-> 33]>>]}

FramePmtTables == [i_program_number : {1, 2}, i_version : {0, 1},
                   b_current_next : {TRUE}, i_pcr_pid : {48},
                   es : {<<>>,
                         <<[i_pid |-> 48, i_type |-> 2, lang |-> ""]>>,
                         <<[i_pid |-> 49, i_type |-> 3, lang |-> ""]>>,
                         <<[i_pid |-> 49, i_type |-> 3, lang |-> ""],
                           [i_pid |-> 32, i_type |-> 2, lang |-> ""],
                           [i_pid |-> 17, i_type |-> 3, lang |-> ""]>>}]

FrameRan(name, S, i_number, pmtpid, named, b_accept) ==
    [name |-> name, pre |-> S.pid, b_dvb_meta |-> S.b_dvb_meta, i_number |-> i_number,
     pmtpid |-> pmtpid, named |-> named, b_accept |-> b_accept]

FrameInit ==
    /\ sys = OpenSys(TRUE)
    /\ op = FrameRan("Open", sys, 0, -1, {}, FALSE)

\* the PAT that makes the programs known
FramePAT ==
    \E p_pat \in FramePatTables :
        /\ op.name = "Open"
        /\ sys' = [PATCallBack(sys, p_pat) EXCEPT !.out = <<>>]
        /\ op' = FrameRan("PAT", sys, 0, -1, {}, FALSE)

FramePMT ==
    \E p_pmt \in FramePmtTables :
        LET at == PMTFind(sys, p_pmt.i_program_number)
            pmtpid == IF at[1] = 0 THEN -1 ELSE sys.pmt[at[1]]
        IN /\ ~sys.crashed
           /\ sys' = [PMTCallBack(sys, p_pmt) EXCEPT !.out = <<>>]
           /\ op' = FrameRan("PMT", sys, p_pmt.i_program_number, pmtpid,
                             {p_pmt.es[k].i_pid : k \in 1..Len(p_pmt.es)},
                             /\ at[1] # 0
                             /\ ~PMTDiscards(sys.pid[pmtpid].psi.prg[at[2]], p_pmt))

FrameNext == FramePAT \/ FramePMT

SpecFrame == FrameInit /\ [][FrameNext]_vars

\* the entry was a stream of the program the PMT is for
OwnedByProgram(pe) ==
    /\ pe.b_valid /\ pe.psi.st = "null"
    /\ pe.p_owner = op.pmtpid /\ pe.i_owner_number = op.i_number

\* ValidateDVBMeta tore the broadcast metadata down in the handler
MetaTornDown == op.b_dvb_meta /\ ~sys.b_dvb_meta

\* C35: an accepted PMT of a program changes, besides the program's own
\* record in its PMT PID, only entries that were streams of the program or
\* were invalid, and the SDT, EIT and TDT entries when it ends the
\* broadcast metadata: a valid entry of another owner that it names is as
\* it was, and so are the streams of a program that shares the PMT PID.
C35_PmtChangesOwnEntriesOnly ==
    (op.name = "PMT" /\ op.b_accept /\ ~sys.crashed) =>
        /\ \A p \in PIDS \ {op.pmtpid} :
               (/\ op.pre[p].b_valid
                /\ ~OwnedByProgram(op.pre[p])
                /\ ~(MetaTornDown /\ p \in {17, 18, 20}))
                   => sys.pid[p] = op.pre[p]
        /\ LET pre == op.pre[op.pmtpid]
               now == sys.pid[op.pmtpid]
           IN /\ [now EXCEPT !.psi.prg = <<>>] = [pre EXCEPT !.psi.prg = <<>>]
              /\ Len(now.psi.prg) = Len(pre.psi.prg)
              /\ \A g \in 1..Len(pre.psi.prg) :
                     pre.psi.prg[g].i_number # op.i_number
                         => now.psi.prg[g] = pre.psi.prg[g]

\* C35 witness: programs 1 and 2 share PMT PID 32; a PMT of one of them
\* tore its own stream down and named the PID of the other program's
\* stream, which it found taken
C35_Witness ==
    /\ op.name = "PMT" /\ op.b_accept
    /\ op.named \cap {48, 49} # {} /\ 32 \notin op.named
    /\ \E p \in {48, 49}, q \in {48, 49} :
           /\ OwnedByProgram(op.pre[p])
           /\ sys.pid[p] # op.pre[p]
           /\ op.pre[q].b_valid /\ op.pre[q].p_owner = op.pmtpid
           /\ op.pre[q].i_owner_number # op.i_number
           /\ sys.pid[q] = op.pre[q]

---------------------------------------------------------------------------
\* C36: after GatherData has returned for a packet of an elementary-stream
\* PID, an empty reassembly buffer has the declared size 0 and 0 bytes
\* gathered, and a declared size above 0 is above the bytes gathered: a
\* unit that has reached its declared length is finalized in the call.
C36_SizesFollowBuffer ==
    LET es == sys.pid[48].es
    IN /\ es.p_data = <<>> => es.i_data_size = 0 /\ es.i_data_gathered = 0
       /\ es.i_data_size > 0 => es.i_data_gathered < es.i_data_size

\* C36 witness: a packet without unit start brought a unit of several
\* blocks to its declared length; the unit was sent and the buffer is empty
C36_Witness ==
    /\ op.name = "Packet" /\ ~op.pk.b_unit_start
    /\ op.pre.n >= 2
    /\ Sent # <<>>
    /\ sys.pid[48].es.p_data = <<>>

---------------------------------------------------------------------------
(* Streams without a handle.  The session and the PMTs of the dropped      *)
(* streams, with packets of PID 48 and PID 49 between the updates: with    *)
(* and without unit start, 184 bytes each, a unit start beginning a PES of *)
(* 400 bytes, the counters consecutive and the stream ending MaxCcSteps    *)
(* behind the first.  op records the handles of the two PIDs from before   *)
(* the handler.                                                            *)

SinkPmts == [i_program_number : {1}, i_version : {0, 1},
             b_current_next : {TRUE}, i_pcr_pid : {48}, es : DropStreams]

SinkRan(name, i_pid, S) ==
    [name |-> name, i_pid |-> i_pid, id |-> [p \in DropPids |-> S.pid[p].es.id],
     b_es |-> [p \in DropPids |-> S.pid[p].b_valid /\ HoldsEs(S.pid[p])]]

SinkInit ==
    /\ sys = [PATCallBack(OpenSys(TRUE),
                          [i_version |-> 0, b_current_next |-> TRUE,
                           programs |-> <<[i_number |-> 1, i_pid |-> 32]>>])
                 EXCEPT !.out = <<>>]
    /\ op = SinkRan("Open", 0, sys)

SinkPMT ==
    \E p_pmt \in SinkPmts :
        /\ sys' = PMTCallBack(sys, p_pmt)
        /\ op' = SinkRan("PMT", 0, sys)

\* Demux on a packet of a valid elementary-stream PID
SinkPacket ==
    \E p \in DropPids, b_unit_start \in BOOLEAN :
        /\ sys.pid[p].b_valid /\ sys.pid[p].psi.st = "null"
        /\ sys.pid[p].i_cc = 255 \/ (sys.pid[p].i_cc - FirstCc) % 16 < MaxCcSteps
        /\ sys' = GatherData(sys, [CcPacketOf((IF sys.pid[p].i_cc = 255 THEN FirstCc
                                               ELSE sys.pid[p].i_cc + 1) % 16,
                                              b_unit_start, FALSE, "payload")
                                      EXCEPT !.i_pid = p], 0).S
        /\ op' = SinkRan("Packet", p, sys)

SinkNext == SinkPMT \/ SinkPacket

SpecSink == SinkInit /\ [][SinkNext]_vars

\* the entry is a valid stream entry whose primary stream has no handle
NoHandle(pe) == pe.b_valid /\ HoldsEs(pe) /\ pe.es.id = 0

\* C37: a valid elementary-stream PID whose primary stream has no handle
\* of the output never has payload buffered, and no block is sent for a
\* PID whose stream has no handle.
C37_NoHandleNoBuffer ==
    /\ \A p \in DropPids :
           NoHandle(sys.pid[p]) =>
               /\ sys.pid[p].es.p_data = <<>>
               /\ sys.pid[p].es.i_data_gathered = 0
    /\ \A k \in 1..Len(sys.out) :
           sys.out[k].ev \in {"Send", "SendExtra"} =>
               /\ op.name = "Packet" /\ sys.out[k].a = op.i_pid
               /\ op.id[op.i_pid] # 0

\* C37 witness: a packet with unit start came on PID 49, a stream without
\* category, while PID 48 has a unit gathering
C37_Witness ==
    /\ op.name = "Packet" /\ op.i_pid = 49
    /\ op.b_es[49] /\ op.id[49] = 0
    /\ NoHandle(sys.pid[49])
    /\ sys.pid[49].i_cc # 255
    /\ sys.pid[48].es.p_data # <<>>

---------------------------------------------------------------------------
(* Seek, one turn of its loop at a time, on the bytes of the stream.  The  *)
(* stream is junk bytes of garbage and post packets of 188 bytes; every    *)
(* packet is of the PCR PID and carries a PCR, 0 in the packets before     *)
(* packet jump and LatePcr from it on.  The session is the one of the      *)
(* resynchronisation with the PCR members of demux_sys_t and the locals of *)
(* Seek: at is "idle" outside Seek, "loop" at the head of the while loop,  *)
(* "found" or "failed" behind it.                                          *)

LatePcr == 9000000

BisectStreams == {[i_packet_size |-> 188, i_packet_header_size |-> 0, pre |-> 0,
                   junk |-> r, stray |-> {}, post |-> n, tail |-> 0, jump |-> j] :
                  r \in {0, 1, 50}, n \in {33, 60}, j \in {5, 13, 14, 30}}

\* GetPCR of the packet that starts at i_start
BisectPcr(st, i_start) ==
    IF (i_start - st.junk) \div st.i_packet_size < st.jump THEN 0 ELSE LatePcr

\* ReadTSPacket: the passes of the while loop until it is left
RECURSIVE ResyncLoop(_)
ResyncLoop(S0) ==
    Bind(S0, LAMBDA S : IF S.pc = "resync" THEN ResyncLoop(ResyncPass(S)) ELSE S)

\* SeekToPCR on the bytes: [S, b_ok].  The first packet read is of the PCR
\* PID and has a PCR, so the loop makes one turn.
SeekToPCRBytes(S, i_pos0) ==
    IF i_pos0 < 0 THEN [S |-> S, b_ok |-> FALSE]
    ELSE LET i_last_pos == SyncLength(S.stream) - S.stream.i_packet_size
         IN Bind(ResyncLoop(ReadTSPacketHead(
                     [S EXCEPT !.i_pos = Min(i_pos0, i_last_pos)])), LAMBDA T :
                IF T.p_pkt.b_null
                THEN [S |-> [T EXCEPT !.i_pos = S.i_pos], b_ok |-> FALSE]
                ELSE [S |-> [T EXCEPT !.i_current_pcr =
                                          Big(BisectPcr(S.stream, T.p_pkt.i_start))],
                      b_ok |-> TRUE])

\* the for loop of CheckPCR from sample i on (C index i is index i + 1)
RECURSIVE CheckPCRBytes(_, _)
CheckPCRBytes(S, i) ==
    IF i >= S.i_pcrs_num THEN S
    ELSE LET i_pos == (SyncLength(S.stream) \div S.i_pcrs_num) * i
             r == SeekToPCRBytes(S, i_pos - (i_pos % S.stream.i_packet_size))
         IN IF ~r.b_ok THEN [r.S EXCEPT !.b_force_seek_per_percent = TRUE]
            ELSE CheckPCRBytes([r.S EXCEPT !.p_pcrs[i + 1] = r.S.i_current_pcr,
                                           !.p_pos[i + 1] = r.S.i_pos], i + 1)

\* the session Open leaves: the probes have run from offset 0
BisectSession(st) ==
    LET S0 == [stream |-> st, i_pos |-> 0, pc |-> "idle", b_alive |-> TRUE, oob |-> 0,
               p_pkt |-> NoBlock,
               i_pcrs_num |-> PcrsNum,
               p_pcrs |-> [k \in 1..PcrsNum |-> Big(0)],
               p_pos |-> [k \in 1..PcrsNum |-> 0],
               i_first_pcr |-> Big(0), i_last_pcr |-> Big(LatePcr),
               i_current_pcr |-> Big(-1), b_force_seek_per_percent |-> FALSE,
               at |-> "idle", i_target_pcr |-> Big(0), i_head_pos |-> 0,
               i_tail_pos |-> 0, i_initial_pos |-> 0, i_initial_pcr |-> Big(-1)]
    IN [CheckPCRBytes(S0, 1) EXCEPT !.i_pos = 0, !.i_current_pcr = Big(-1)]

\* Seek up to the while loop
SeekBegin(S, f8) ==
    LET i_target_pcr == TargetPcr(S, f8)
        i == SeekBracket(S, i_target_pcr, 1, Big(0))
    IN [S EXCEPT !.at = "loop", !.i_target_pcr = i_target_pcr,
                 !.i_initial_pos = S.i_pos, !.i_initial_pcr = S.i_current_pcr,
                 !.i_head_pos = S.p_pos[i],
                 !.i_tail_pos = IF i < S.i_pcrs_num THEN S.p_pos[i + 1]
                                ELSE SyncLength(S.stream)]

\* SeekTurnMove, were the head set to the offset probed
SeekTurnMove_HeadAtProbe(S, i_pos, i_diff_msec) ==
    IF Lt(Big(500), i_diff_msec)
    THEN [S EXCEPT !.i_tail_pos = i_pos - S.stream.i_packet_size]
    ELSE IF Lt(i_diff_msec, Big(-500))
    THEN [S EXCEPT !.i_head_pos = i_pos]
    ELSE [S EXCEPT !.at = "found"]

\* the three ways of i_diff_msec: the probe is late, early, or the target
SeekTurnMove(S, i_pos, i_diff_msec) ==
    IF Lt(Big(500), i_diff_msec)
    THEN [S EXCEPT !.i_tail_pos = i_pos - S.stream.i_packet_size]
    ELSE IF Lt(i_diff_msec, Big(-500))
    THEN [S EXCEPT !.i_head_pos = i_pos + S.stream.i_packet_size]
    ELSE [S EXCEPT !.at = "found"]

\* one turn of the while loop, entered with i_head_pos <= i_tail_pos
SeekTurn(S) ==
    LET i_mid == S.i_head_pos + (S.i_tail_pos - S.i_head_pos) \div 2
        i_pos == i_mid - (i_mid % S.stream.i_packet_size)
    IN Bind(SeekToPCRBytes(S, i_pos), LAMBDA r :
           IF ~r.b_ok THEN [r.S EXCEPT !.at = "failed"]
           ELSE Bind(AdjustPCRWrapAround(r.S, r.S.i_current_pcr), LAMBDA i_pcr :
                Bind(DiffMsec(i_pcr, S.i_target_pcr), LAMBDA i_diff_msec :
                     SeekTurnMove([r.S EXCEPT !.i_current_pcr = i_pcr],
                                  i_pos, i_diff_msec))))

\* behind the loop: if( !b_found ) the offset and the PCR are restored
SeekEnd(S) ==
    IF S.at = "found" THEN S
    ELSE [S EXCEPT !.at = "failed", !.i_pos = S.i_initial_pos,
                   !.i_current_pcr = S.i_initial_pcr]

BisectRan(name, S) ==
    [name |-> name, i_head_pos |-> S.i_head_pos, i_tail_pos |-> S.i_tail_pos]

BisectInit ==
    /\ sys \in {BisectSession(st) : st \in BisectStreams}
    /\ op = BisectRan("Open", sys)

\* Seek is called
BisectSeek ==
    \E f8 \in {2, 6, 8} :
        /\ sys.at # "loop"
        /\ op.name # "Seek"
        /\ sys' = SeekBegin(sys, f8)
        /\ op' = BisectRan("Seek", sys)

\* the while loop makes a turn, and Seek returns if the turn ended it
BisectTurn ==
    /\ sys.at = "loop" /\ sys.i_head_pos <= sys.i_tail_pos
    /\ \E T \in {SeekTurn(sys)} : sys' = IF T.at = "loop" THEN T ELSE SeekEnd(T)
    /\ op' = BisectRan("Turn", sys)

\* the loop condition fails, and Seek returns
BisectEnd ==
    /\ sys.at = "loop" /\ sys.i_head_pos > sys.i_tail_pos
    /\ sys' = SeekEnd(sys)
    /\ op' = BisectRan("End", sys)

BisectNext == BisectSeek \/ BisectTurn \/ BisectEnd

SpecBisect == BisectInit /\ [][BisectNext]_vars

\* Seek runs to its end once called
SpecBisectFair == SpecBisect /\ WF_vars(BisectTurn) /\ WF_vars(BisectEnd)

\* C38, as stated: a turn of the loop of Seek that neither succeeds nor
\* fails makes the interval from head to tail shorter by one packet size
\* or more, so that the loop ends after finitely many probes.
C38_TurnShrinksByPacket ==
    /\ [][(sys.at = "loop" /\ sys'.at = "loop" /\ op'.name = "Turn")
            => (sys'.i_tail_pos - sys'.i_head_pos)
                   <= (sys.i_tail_pos - sys.i_head_pos) - sys.stream.i_packet_size]_vars
    /\ (sys.at = "loop") ~> (sys.at \in {"found", "failed"})

\* C38, as amended: a turn that neither succeeds nor fails lowers the tail
\* by one packet size or more, or raises the head to a multiple of the
\* packet size above it, which is one packet size or more above a head
\* that is itself a multiple and one byte or more above any other; so the
\* loop ends after finitely many probes, with success or failure.
C38_TurnShrinksInterval ==
    /\ [][(sys.at = "loop" /\ sys'.at = "loop" /\ op'.name = "Turn")
            => \/ /\ sys'.i_head_pos = sys.i_head_pos
                  /\ sys'.i_tail_pos <= sys.i_tail_pos - sys.stream.i_packet_size
               \/ /\ sys'.i_tail_pos = sys.i_tail_pos
                  /\ sys'.i_head_pos > sys.i_head_pos
                  /\ sys'.i_head_pos % sys.stream.i_packet_size = 0
                  /\ sys.i_head_pos % sys.stream.i_packet_size = 0
                         => sys'.i_head_pos
                                >= sys.i_head_pos + sys.stream.i_packet_size]_vars
    /\ (sys.at = "loop") ~> (sys.at \in {"found", "failed"})

\* C38 witness: a turn raised a head that is no multiple of the packet
\* size by less than one packet size, and the loop goes on
C38_Witness ==
    /\ op.name = "Turn" /\ sys.at = "loop"
    /\ sys.i_tail_pos = op.i_tail_pos
    /\ sys.i_head_pos > op.i_head_pos
    /\ sys.i_head_pos < op.i_head_pos + sys.stream.i_packet_size

---------------------------------------------------------------------------
(* PATs behind a user PMT (SpecUser).                                      *)

\* C39: once UserPmt has installed the user program, b_user_pmt stays set,
\* and a PAT delivered while it is set leaves the tracked programs, the PMT
\* list, the PID table with the PAT version stored in it and the rest of
\* the session as they were, and sends nothing to the output, whatever the
\* version and the current/next flag of the PAT.
C39_UserPmtDiscardsPat ==
    /\ [][sys.b_user_pmt => sys'.b_user_pmt]_vars
    /\ [][(sys.b_user_pmt /\ op'.name = "PAT")
            => /\ Tracked(sys') = Tracked(sys)
               /\ sys'.pmt = sys.pmt
               /\ sys'.pid = sys.pid
               /\ sys'.pid[0].psi.i_pat_version = sys.pid[0].psi.i_pat_version
               /\ sys'.out = <<>>
               /\ ~op'.changed]_vars

\* C39 witness: a PAT has been delivered to a session with the user
\* program installed that had taken no PAT before, so that nothing but the
\* user PMT made PATCallBack discard it
C39_Witness ==
    /\ op.name = "PAT" /\ op.b_ok
    /\ sys.b_user_pmt
    /\ sys.pmt # <<>>
    /\ sys.pid[0].psi.i_pat_version = -1

====
